---- MODULE Spec2Model ----
(***************************************************************************)
(* The raw framed D-Bus connection of zbus                                 *)
(* (zbus/src/connection/raw/connection.rs) with the primary header codec   *)
(* (zbus/src/message/header.rs) it frames with.                            *)
(*                                                                         *)
(* Byte strings (Vec<u8>, &[u8]) are kept run-length encoded: a sequence   *)
(* of runs <<value, count>>, count >= 1, adjacent runs of different value. *)
(* A buffer of MAX_MESSAGE_SIZE bytes is then a value TLC can hold.        *)
(***************************************************************************)
EXTENDS Integers, Sequences, FiniteSets, TLC

VARIABLES
    outbound,    \* conn0.outbound: [pos, msgs]
    pcF,         \* position of the try_flush call that holds conn0.outbound
    flushRes,    \* what the last try_flush call returned
    sent,        \* the last poll_sendmsg call: [pos, fds, n]
    acked,       \* bytes of the head message acknowledged by poll_sendmsg so far
    listeners,   \* the listeners handed out by conn0.out_queue_ready.listen()
    awaitRes,    \* what the last await_out_queue_ready call returned
    enqueued,    \* every message given to enqueue_message, in call order
    handed,      \* poll_sendmsg calls that put fds of the head message on the wire
    sm,          \* the WriteHalf::send_message call on conn0's socket: [pc, msg, pos, handed]
    fl,          \* the tasks that call try_flush: task -> [pc, late]
    flushLate,   \* the try_flush call that ran last was made after close returned
    written,     \* every byte try_flush wrote to the socket, in order
    senders,     \* the tasks that send: task -> "idle" | "go" | the listener it waits on
    peer,        \* what conn1's peer wrote, how much of it the handshake read, the reader
    grain,       \* the socket splits reads and writes at multiples of grain
    conns,       \* 2: conn0 sends and conn1 receives; 1: one Connection does both
    wire,        \* the socket: bytes (and fds) written and not yet read
    wireClosed,  \* the writing side of the socket is closed
    mutex,       \* who holds which Mutex: outbound, inbound, socket, socket1
    activity,    \* the listeners handed out by monitor_activity
    closed,      \* close has closed the socket
    closer,      \* the task that calls close: "idle" | "waiting" | "done"
    inbound,     \* conn1.inbound: [buffer, fds, pos, prev_seq]
    pcR,         \* position of the try_receive_message call on conn1
    recvRes,     \* what the last try_receive_message call returned
    recvLate,    \* the try_receive_message call that ran last was made after close returned
    io,          \* the last poll_recvmsg result of the running call
    frameIn,     \* bytes handed to conn1 for the frame it is assembling
    fdsIn,       \* fds handed to conn1 for the frame it is assembling
    delivered,   \* the messages try_receive_message returned, in order
    hdr,         \* a message header in the making: [primary, fields, calls]
    addr,        \* the transport options parsed last and what came of them
    iter,        \* a blocking MessageIterator and the stream it was made over
    ser          \* a value given to zvariant and what came of it: [ctxt, value, size, data]

vars == <<outbound, pcF, flushRes, sent, acked, handed, sm, listeners, awaitRes,
          enqueued, fl, flushLate, written, senders, grain, peer, conns, wire,
          wireClosed, mutex, activity, closed, closer, inbound, pcR, recvRes,
          recvLate, io, frameIn, fdsIn, delivered, hdr, addr, iter, ser>>

\* what the sending calls work on, what the receiving call works on, and what
\* is fixed when the connections are made
sendVars == <<outbound, pcF, flushRes, sent, acked, handed, sm, listeners,
              awaitRes, enqueued, fl, flushLate, written>>
recvVars == <<inbound, pcR, recvRes, recvLate, io, frameIn, fdsIn, delivered>>
\* the objects that live apart from a connection
apart == <<hdr, addr, iter, ser>>
conf == <<grain, peer, conns, apart>>

(***************************************************************************)
(* Program constants.                                                      *)
(***************************************************************************)
PRIMARY_HEADER_SIZE == 12
MIN_MESSAGE_SIZE == PRIMARY_HEADER_SIZE + 4
MAX_MESSAGE_SIZE == 128 * 1024 * 1024
MAX_OUT_QUEUE_LEN == 4
\* EndianSig::Big = b'B', EndianSig::Little = b'l'
Big == 66
Little == 108
\* cfg(target_endian = "little")
NATIVE_ENDIAN_SIG == Little

(***************************************************************************)
(* Bounds of the model.                                                    *)
(***************************************************************************)
\* A read or write of up to MaxSplit bytes is split at every multiple of the
\* socket's grain; a larger one is served whole or all but its last byte.
MaxSplit == 32
\* the grain of the socket between two connections
Grain == 5
\* bytes the socket between two connections holds before writes are Pending
WireCap == 20
\* messages enqueued on conn0 when conn1 receives them
MaxPairMsgs == 2
\* messages enqueued on conn0 when the queue fills up
MaxQueueMsgs == 5
\* listeners handed out by await_out_queue_ready
MaxListeners == 2
\* listeners handed out by monitor_activity
MaxMonitors == 1
\* messages enqueued on a Connection that sends and receives
MaxConnMsgs == 1
\* fields added to the Fields of a header
MaxFields == 2
\* the values a field is given: 1 .. MaxValue
MaxValue == 2
\* blocking MessageIterators made over the connection
MaxIterators == 2
\* calls of next on a MessageIterator
MaxNext == 1
\* bytes of the value of a launchd env or an autolaunch scope
MaxValueLen == 3
\* calls of serial_num and serial_num_or_init made on a header
MaxSerialCalls == 3
\* the serials a closure given to serial_num_or_init returns: 1 .. MaxSerial
MaxSerial == 2
\* the longest raw_in_buffer that Connection::new is given
MaxPre == 24
\* messages enqueued on a Connection that two tasks flush
MaxFlushMsgs == 3
\* the grain of the socket of a Connection that sends and receives
ConnGrain == 8

(***************************************************************************)
(* Run-length encoded byte strings.                                        *)
(***************************************************************************)
RECURSIVE BLen(_)
BLen(b) == IF b = <<>> THEN 0 ELSE Head(b)[2] + BLen(Tail(b))

BCat(a, b) ==
    IF a = <<>> THEN b
    ELSE IF b = <<>> THEN a
    ELSE IF a[Len(a)][1] = b[1][1]
         THEN SubSeq(a, 1, Len(a) - 1)
              \o << <<b[1][1], a[Len(a)][2] + b[1][2]>> >> \o Tail(b)
         ELSE a \o b

RECURSIVE BTake(_, _)
BTake(b, k) ==
    IF k <= 0 \/ b = <<>> THEN <<>>
    ELSE IF Head(b)[2] <= k
         THEN <<Head(b)>> \o BTake(Tail(b), k - Head(b)[2])
         ELSE << <<Head(b)[1], k>> >>

RECURSIVE BDrop(_, _)
BDrop(b, k) ==
    IF k <= 0 \/ b = <<>> THEN b
    ELSE IF Head(b)[2] <= k
         THEN BDrop(Tail(b), k - Head(b)[2])
         ELSE << <<Head(b)[1], Head(b)[2] - k>> >> \o Tail(b)

\* b[i], i counted from 0
RECURSIVE BAt(_, _)
BAt(b, i) == IF i < Head(b)[2] THEN Head(b)[1] ELSE BAt(Tail(b), i - Head(b)[2])

BRun(v, n) == IF n <= 0 THEN <<>> ELSE << <<v, n>> >>

RECURSIVE FromSeq(_)
FromSeq(s) == IF s = <<>> THEN <<>> ELSE BCat(BRun(Head(s), 1), FromSeq(Tail(s)))

\* Vec::resize(n, 0)
Resize(b, n) == IF n <= BLen(b) THEN BTake(b, n) ELSE BCat(b, BRun(0, n - BLen(b)))

\* what recvmsg does to the slice buffer[pos..] it was given: it writes chunk at pos
WriteAt(b, pos, chunk) ==
    BCat(BCat(BTake(b, pos), chunk), BDrop(b, pos + BLen(chunk)))

U32LE(n) == <<n % 256, (n \div 256) % 256, (n \div 65536) % 256, (n \div 16777216) % 256>>
U32BE(n) == <<(n \div 16777216) % 256, (n \div 65536) % 256, (n \div 256) % 256, n % 256>>

\* a u32 read at offset off in the host's (little-endian) byte order
NativeU32(b, off) ==
    BAt(b, off) + 256 * BAt(b, off + 1) + 65536 * BAt(b, off + 2)
        + 16777216 * BAt(b, off + 3)

(***************************************************************************)
(* The primary header codec.                                               *)
(***************************************************************************)
padding_for_8_bytes(value) == (8 - (value % 8)) % 8

\* #[repr(u8)] enum Type with Deserialize_repr: the discriminants 0..4
TypeCodes == 0 .. 4
\* BitFlags<Flags>: NoReplyExpected | NoAutoStart | AllowInteractiveAuth
FlagBits == 0 .. 7

\* impl TryFrom<u8> for EndianSig
EndianSig_try_from(val) ==
    IF val = Big THEN [ok |-> TRUE, sig |-> "Big"]
    ELSE IF val = Little THEN [ok |-> TRUE, sig |-> "Little"]
    ELSE [ok |-> FALSE, err |-> "IncorrectEndian"]

\* impl From<u8> for Type
Type_from(val) ==
    IF val = 1 THEN "MethodCall"
    ELSE IF val = 2 THEN "MethodReturn"
    ELSE IF val = 3 THEN "Error"
    ELSE IF val = 4 THEN "Signal"
    ELSE "Invalid"

\* PrimaryHeader::read(buf), buf.len() >= MIN_MESSAGE_SIZE: the derived
\* Deserialize of PrimaryHeader in the native byte order, then fields_len.
\* EndianSig and Type are Deserialize_repr, which takes the discriminants
\* only, and BitFlags<Flags> takes the defined bits only; what zvariant
\* rejects comes back as the zvariant error (Error::Variant).  The
\* protocol_version is a u8 like any other.
read(buf) ==
    LET endian_sig == BAt(buf, 0)
        msg_type == BAt(buf, 1)
        flags == BAt(buf, 2)
    IN  IF endian_sig \notin {Big, Little} \/ msg_type \notin TypeCodes
           \/ flags \notin FlagBits
        THEN [ok |-> FALSE, err |-> "Variant"]
        ELSE [ok |-> TRUE,
              endian_sig |-> endian_sig,
              msg_type |-> msg_type,
              flags |-> flags,
              protocol_version |-> BAt(buf, 3),
              body_len |-> NativeU32(buf, 4),
              serial_num |-> NativeU32(buf, 8),
              fields_len |-> NativeU32(buf, PRIMARY_HEADER_SIZE)]

\* total_len without the padding before the body
total_len_unpadded(h) == MIN_MESSAGE_SIZE + h.fields_len + h.body_len

\* total_len as try_receive_message computes it from a parsed header
total_len(h) ==
    LET header_len == MIN_MESSAGE_SIZE + h.fields_len
        body_padding == padding_for_8_bytes(header_len)
    IN  header_len + body_padding + h.body_len

(***************************************************************************)
(* Messages.  A Message owns (bytes, fds, recv_seq).                        *)
(***************************************************************************)
\* the 16 bytes every frame starts with
Preamble(endian_sig, msg_type, flags, version, body_len, serial, fields_len) ==
    FromSeq(<<endian_sig, msg_type, flags, version>>
            \o (IF endian_sig = Big THEN U32BE(body_len) ELSE U32LE(body_len))
            \o (IF endian_sig = Big THEN U32BE(serial) ELSE U32LE(serial))
            \o (IF endian_sig = Big THEN U32BE(fields_len) ELSE U32LE(fields_len)))

\* The header field UnixFDs (code 9) as an array element (yv): the code, the
\* signature "u" (length 1, 'u', NUL) and the u32, 8 bytes in all.
UnixFdsField(n) == FromSeq(<<9, 1, 117, 0>> \o U32LE(n))

\* The header field Signature (code 8) with the value "u": the code, the
\* signature "g" (length 1, 'g', NUL) and the signature (length 1, 'u', NUL),
\* 7 bytes in all.
SignatureField == FromSeq(<<8, 1, 103, 0, 1, 117, 0>>)

\* The fields array of a message that passes nfds fds: none, or UnixFDs alone.
FieldsFor(nfds) == IF nfds = 0 THEN <<>> ELSE UnixFdsField(nfds)

\* Encode: a message in the native byte order, the body being body_len bytes
\* of value fill.
Encode(msg_type, serial, fds, fill, body_len) ==
    LET fields == FieldsFor(Len(fds))
        header == BCat(Preamble(NATIVE_ENDIAN_SIG, msg_type, 0, 1, body_len,
                                serial, BLen(fields)), fields)
    IN  [bytes |-> BCat(BCat(header, BRun(0, padding_for_8_bytes(BLen(header)))),
                        BRun(fill, body_len)),
         fds |-> fds]

\* Message::from_raw_parts(bytes, fds, recv_seq): Decode.  It fails on a
\* primary header that PrimaryHeader::read rejects, on a fields array that
\* does not parse and on a UnixFDs field that differs from fds.len().
from_raw_parts(bytes, fds, recv_seq) ==
    LET h == read(bytes)
        fields == BTake(BDrop(bytes, MIN_MESSAGE_SIZE), h.fields_len)
    IN  IF ~h.ok THEN [ok |-> FALSE]
        ELSE IF h.fields_len = 0
        THEN [ok |-> TRUE, bytes |-> bytes, fds |-> fds, recv_seq |-> recv_seq]
        ELSE IF fields = SignatureField /\ fds = <<>>
        THEN [ok |-> TRUE, bytes |-> bytes, fds |-> fds, recv_seq |-> recv_seq]
        ELSE IF fields = UnixFdsField(Len(fds))
        THEN [ok |-> TRUE, bytes |-> bytes, fds |-> fds, recv_seq |-> recv_seq]
        ELSE [ok |-> FALSE]

(***************************************************************************)
(* The socket: a byte stream with ancillary fds.  wire is a sequence of    *)
(* segments [fds, bytes]; the fds of a segment travel with its first byte. *)
(***************************************************************************)
RECURSIVE WireLen(_)
WireLen(w) == IF w = <<>> THEN 0 ELSE BLen(Head(w).bytes) + WireLen(Tail(w))

RECURSIVE WireBytes(_)
WireBytes(w) == IF w = <<>> THEN <<>> ELSE BCat(Head(w).bytes, WireBytes(Tail(w)))

\* the fds that come with the first k bytes
RECURSIVE WireFds(_, _)
WireFds(w, k) ==
    IF k <= 0 \/ w = <<>> THEN <<>>
    ELSE Head(w).fds \o WireFds(Tail(w), k - BLen(Head(w).bytes))

RECURSIVE WireDrop(_, _)
WireDrop(w, k) ==
    IF k <= 0 \/ w = <<>> THEN w
    ELSE IF BLen(Head(w).bytes) <= k
         THEN WireDrop(Tail(w), k - BLen(Head(w).bytes))
         ELSE <<[fds |-> <<>>, bytes |-> BDrop(Head(w).bytes, k)]>> \o Tail(w)

\* a successful sendmsg of bytes (at least one) with fds
WirePut(w, bytes, fds) ==
    IF fds = <<>> /\ w # <<>>
    THEN SubSeq(w, 1, Len(w) - 1)
         \o <<[fds |-> w[Len(w)].fds, bytes |-> BCat(w[Len(w)].bytes, bytes)]>>
    ELSE Append(w, [fds |-> fds, bytes |-> bytes])

\* the byte counts a call offered m bytes may be served with
Sizes(m) ==
    IF m <= MaxSplit THEN {k \in 1 .. m : k = m \/ k % grain = 0} ELSE {m - 1, m}

Min(a, b) == IF a < b THEN a ELSE b

\* Socket::poll_recvmsg(cx, buf) with buf.len() = n: Pending, an I/O error,
\* Ok((len, fds)) with 1 <= len <= n bytes of the stream, or Ok((0, [])) at
\* the end of the stream; an I/O error on a socket that close has closed.
poll_recvmsg(n) ==
    IF closed THEN {[kind |-> "Err"]}
    ELSE {[kind |-> "Pending"], [kind |-> "Err"]}
         \cup {[kind |-> "Ok", len |-> k, bytes |-> BTake(WireBytes(wire), k),
                fds |-> WireFds(wire, k)] : k \in Sizes(Min(n, WireLen(wire)))}
         \cup (IF wire = <<>> /\ wireClosed
               THEN {[kind |-> "Ok", len |-> 0, bytes |-> <<>>, fds |-> <<>>]}
               ELSE {})

(***************************************************************************)
(* The Mutexes and Events of a Connection.  A Mutex is held by the task    *)
(* named in mutex, or by "none"; a listener of an Event is "waiting" until *)
(* a notify makes it "notified".                                           *)
(***************************************************************************)
Mutexes == {"outbound", "inbound", "socket", "socket1"}

\* self.socket of the Connection that sends and of the Connection that
\* receives: one Mutex when they are one Connection
TxSocket == "socket"
RxSocket == IF conns = 1 THEN "socket" ELSE "socket1"

\* a Mutex on which lock would not wait, whoever holds it
unlocked_always(mu, m) == TRUE

\* a Mutex on which lock does not wait: no guard is out
unlocked(mu, m) == mu[m] = "none"

\* Mutex::lock by who
Lock(mu, m, who) == [mu EXCEPT ![m] = who]

\* the guards on the Mutexes ms are dropped
Unlock(mu, ms) == [m \in DOMAIN mu |-> IF m \in ms THEN "none" ELSE mu[m]]

\* no notification
NotifyNone(ls) == ls

\* Event::notify(usize::MAX)
NotifyAll(ls) == [i \in 1 .. Len(ls) |-> "notified"]

\* activity_event left alone
activity_quiet(ls) == ls

\* lines 85, 147 and 238: self.activity_event.notify(usize::MAX)
activity_notified(ls) == NotifyAll(ls)

\* line 271: self.activity_event.listen()
monitor_activity ==
    /\ Len(activity) < MaxMonitors
    /\ activity' = Append(activity, "waiting")
    /\ UNCHANGED <<sendVars, senders, conf, wire, wireClosed, mutex, closed, closer,
                   recvVars>>

(***************************************************************************)
(* Connection::try_receive_message on conn1.                               *)
(***************************************************************************)
\* received, the chunk written at the start of the buffer instead of at pos
received_at_start(ib, res) ==
    [ib EXCEPT !.buffer = WriteAt(@, 0, res.bytes),
               !.fds = @ \o res.fds,
               !.pos = @ + res.len]

\* lines 160-173 and 203-216: recvmsg wrote res.bytes into buffer[pos..]; its
\* fds are appended and the cursor moves on
received(ib, res) ==
    [ib EXCEPT !.buffer = WriteAt(@, ib.pos, res.bytes),
               !.fds = @ \o res.fds,
               !.pos = @ + res.len]

\* excess with >= for >
excess_at_max(total) == total >= MAX_MESSAGE_SIZE

\* line 191
excess(total) == total > MAX_MESSAGE_SIZE

\* incomplete, off by one: the loop ends with the last byte unread
incomplete_but_last(ib) == BLen(ib.buffer) > ib.pos + 1

\* line 200: the condition of the loop that reads the rest
incomplete(ib) == BLen(ib.buffer) > ib.pos

\* taken, the fds left in the accumulator
taken_keep_fds(ib, seq) == [buffer |-> <<>>, fds |-> ib.fds, pos |-> 0, prev_seq |-> seq]

\* taken, the cursor left at the end of the message
taken_keep_pos(ib, seq) == [buffer |-> <<>>, fds |-> <<>>, pos |-> ib.pos, prev_seq |-> seq]

\* lines 220-225: the cursor back to 0, buffer and fds taken, the sequence kept
taken(ib, seq) == [buffer |-> <<>>, fds |-> <<>>, pos |-> 0, prev_seq |-> seq]

\* rejected, the frame given up and the cursor back to 0
rejected_and_skipped(ib) == [ib EXCEPT !.buffer = <<>>, !.pos = 0]

\* lines 186 and 192: the error is returned with inbound as it is
rejected(ib) == ib

NoResult == [kind |-> "NoResult"]

\* the call returns r: its guards on inbound and on the socket are dropped
RecvReturn(r) ==
    /\ pcR' = "idle"
    /\ recvRes' = r
    /\ mutex' = Unlock(mutex, {m \in {"inbound", RxSocket} : mutex[m] = "recv"})

\* lines 147-150: notify activity, lock inbound; with fewer than 16 bytes
\* make room for them
RecvStart ==
    /\ pcR = "idle"
    /\ peer.api = "try_receive_message"
    /\ unlocked(mutex, "inbound")
    /\ activity' = activity_notified(activity)
    /\ mutex' = Lock(mutex, "inbound", "recv")
    /\ recvLate' = (closer = "done")
    /\ recvRes' = NoResult
    /\ io' = NoResult
    /\ IF inbound.pos < MIN_MESSAGE_SIZE
       THEN /\ inbound' = [inbound EXCEPT !.buffer = Resize(@, MIN_MESSAGE_SIZE)]
            /\ pcR' = "hdr"
       ELSE /\ inbound' = inbound
            /\ pcR' = "parse"
    /\ UNCHANGED <<sendVars, senders, conf, wire, wireClosed, closed, closer,
                   frameIn, fdsIn, delivered>>

\* lines 158 and 201: lock the socket for one round of a loop
RecvLockSocket ==
    /\ \/ pcR = "hdr"
       \/ pcR = "body" /\ incomplete(inbound)
    /\ unlocked(mutex, RxSocket)
    /\ mutex' = Lock(mutex, RxSocket, "recv")
    /\ pcR' = IF pcR = "hdr" THEN "hdr_io" ELSE "body_io"
    /\ UNCHANGED <<sendVars, senders, conf, wire, wireClosed, activity, closed, closer,
                   inbound, recvRes, recvLate, io, frameIn, fdsIn, delivered>>

\* lines 159-183: one round of the loop that completes the first 16 bytes
RecvHeader ==
    /\ pcR = "hdr_io"
    /\ \E res \in poll_recvmsg(BLen(inbound.buffer) - inbound.pos) :
        /\ io' = IF res.kind = "Ok" THEN [kind |-> "Ok", len |-> res.len] ELSE res
        /\ IF res.kind = "Pending"
           THEN /\ RecvReturn([kind |-> "Pending"])
                /\ UNCHANGED <<inbound, wire, frameIn, fdsIn>>
           ELSE IF res.kind = "Err"
           THEN /\ RecvReturn([kind |-> "InputOutput"])
                /\ UNCHANGED <<inbound, wire, frameIn, fdsIn>>
           ELSE /\ inbound' = received(inbound, res)
                /\ wire' = WireDrop(wire, res.len)
                /\ frameIn' = BCat(frameIn, res.bytes)
                /\ fdsIn' = fdsIn \o res.fds
                /\ IF res.len = 0
                   THEN RecvReturn([kind |-> "UnexpectedEof"])
                   ELSE /\ pcR' = IF inbound.pos + res.len < MIN_MESSAGE_SIZE
                                  THEN "hdr" ELSE "parse"
                        /\ recvRes' = recvRes
                        /\ mutex' = Unlock(mutex, {RxSocket})
    /\ UNCHANGED <<sendVars, senders, conf, wireClosed, activity, closed, closer,
                   recvLate, delivered>>

\* lines 186-197: parse the primary header, bound the length, size the buffer
RecvParse ==
    /\ pcR = "parse"
    /\ LET h == read(inbound.buffer)
       IN  IF ~h.ok
           THEN /\ RecvReturn([kind |-> "Header", err |-> h.err])
                /\ inbound' = rejected(inbound)
           ELSE IF excess(total_len(h))
           THEN /\ RecvReturn([kind |-> "ExcessData"])
                /\ inbound' = rejected(inbound)
           ELSE /\ inbound' = [inbound EXCEPT !.buffer = Resize(@, total_len(h))]
                /\ pcR' = "body"
                /\ recvRes' = recvRes
                /\ mutex' = mutex
    /\ UNCHANGED <<sendVars, senders, conf, wire, wireClosed, activity, closed, closer,
                   recvLate, io, frameIn, fdsIn, delivered>>

\* lines 202-217: one round of the loop that reads the rest of the message
RecvBody ==
    /\ pcR = "body_io"
    /\ \E res \in poll_recvmsg(BLen(inbound.buffer) - inbound.pos) :
        /\ io' = IF res.kind = "Ok" THEN [kind |-> "Ok", len |-> res.len] ELSE res
        /\ IF res.kind = "Pending"
           THEN /\ RecvReturn([kind |-> "Pending"])
                /\ UNCHANGED <<inbound, wire, frameIn, fdsIn>>
           ELSE IF res.kind = "Err"
           THEN /\ RecvReturn([kind |-> "InputOutput"])
                /\ UNCHANGED <<inbound, wire, frameIn, fdsIn>>
           ELSE /\ inbound' = received(inbound, res)
                /\ wire' = WireDrop(wire, res.len)
                /\ frameIn' = BCat(frameIn, res.bytes)
                /\ fdsIn' = fdsIn \o res.fds
                /\ pcR' = "body"
                /\ recvRes' = recvRes
                /\ mutex' = Unlock(mutex, {RxSocket})
    /\ UNCHANGED <<sendVars, senders, conf, wireClosed, activity, closed, closer,
                   recvLate, delivered>>

\* lines 219-231: the message is complete; take it and give it its sequence
RecvComplete ==
    /\ pcR = "body"
    /\ ~incomplete(inbound)
    /\ LET seq == inbound.prev_seq + 1
           msg == from_raw_parts(inbound.buffer, inbound.fds, seq)
       IN  /\ inbound' = taken(inbound, seq)
           /\ IF msg.ok
              THEN /\ RecvReturn([kind |-> "Ok", msg |-> msg,
                                  read |-> frameIn, readFds |-> fdsIn])
                   /\ delivered' = Append(delivered, msg)
              ELSE /\ RecvReturn([kind |-> "Decode"])
                   /\ delivered' = delivered
           /\ frameIn' = <<>>
           /\ fdsIn' = <<>>
    /\ UNCHANGED <<sendVars, senders, conf, wire, wireClosed, activity, closed, closer,
                   recvLate, io>>

(***************************************************************************)
(* conn1 behind a peer that is not zbus: the stream is whatever the peer   *)
(* wrote, and the handshake may have read the first bytes of it already.   *)
(***************************************************************************)
\* frames a peer may write: [fds, bytes]
OkA == Encode(1, 1, <<>>, 0, 0)
OkBody == Encode(4, 2, <<>>, 7, 8)
OkFds == Encode(1, 3, <<1, 2>>, 9, 4)
\* a signal with a Signature field of 7 bytes, one byte of padding and a body
\* of 2 bytes
OkSig ==
    [fds |-> <<>>,
     bytes |-> BCat(Preamble(NATIVE_ENDIAN_SIG, 4, 0, 1, 2, 6, 7),
                    BCat(SignatureField, BCat(BRun(0, 1), BRun(6, 2))))]
BadFields ==
    [fds |-> <<>>,
     bytes |-> BCat(Preamble(Little, 1, 0, 1, 2, 5, 3),
                    BCat(BRun(1, 3), BCat(BRun(0, 5), BRun(6, 2))))]
BadEndian == [fds |-> <<>>, bytes |-> Preamble(88, 1, 0, 1, 0, 1, 0)]
BadType == [fds |-> <<>>, bytes |-> Preamble(Little, 9, 0, 1, 0, 1, 0)]
Version2 == [fds |-> <<>>, bytes |-> Preamble(Little, 1, 0, 2, 0, 1, 0)]
BigEndian8 ==
    [fds |-> <<>>, bytes |-> BCat(Preamble(Big, 1, 0, 1, 8, 1, 0), BRun(3, 8))]
MaxFrame ==
    [fds |-> <<>>,
     bytes |-> BCat(Preamble(Little, 1, 0, 1, MAX_MESSAGE_SIZE - 16, 1, 0),
                    BRun(5, MAX_MESSAGE_SIZE - 16))]
OverMaxFrame ==
    [fds |-> <<>>,
     bytes |-> BCat(Preamble(Little, 1, 0, 1, MAX_MESSAGE_SIZE - 15, 1, 0),
                    BRun(5, 40))]
OverMaxPadded ==
    [fds |-> <<>>,
     bytes |-> BCat(Preamble(Little, 1, 0, 1, MAX_MESSAGE_SIZE - 24, 1, 1),
                    BRun(5, 40))]
Cut(f, n) == [fds |-> f.fds, bytes |-> BTake(f.bytes, n)]

RawStreams ==
    { <<OkA, OkBody>>, <<OkFds, OkA>>, <<BadFields, OkBody>>, <<BadEndian, OkA>>,
      <<BadType, OkA>>, <<Version2, OkA>>, <<BigEndian8>>, <<MaxFrame, OkA>>,
      <<OverMaxFrame>>, <<OverMaxPadded>>, <<Cut(OkBody, 20)>>, <<OkBody, Cut(OkA, 9)>>,
      <<OkSig, OkA>> }

\* lengths of the raw_in_buffer that Connection::new is given
RawInLens == 0 .. MaxPre

RECURSIVE AsWire(_)
AsWire(frames) ==
    IF frames = <<>> THEN <<>>
    ELSE LET f == frames[Len(frames)]
         IN  WirePut(AsWire(SubSeq(frames, 1, Len(frames) - 1)), f.bytes, f.fds)

\* the tasks that call try_flush and the tasks that send, none of them in a call
InitTasks(flushers, sending) ==
    /\ fl = [t \in flushers |-> [pc |-> "idle", late |-> FALSE]]
    /\ senders = [t \in sending |-> [at |-> "idle", listener |-> 0]]

\* no header made, no options parsed, no iterator made
NoHeader == [primary |-> <<>>, fields |-> <<>>, calls |-> <<>>]
NoAddress == [kind |-> "none"]
NoIterator ==
    [pc |-> "none", azync |-> <<>>, rule |-> FALSE, owned |-> FALSE, moved |-> "no",
     async_drops |-> 0, completed |-> 0, yielded |-> 0, panicked |-> FALSE]

NoValue == [ctxt |-> <<>>, value |-> <<>>, size |-> <<>>, data |-> <<>>]

InitApart ==
    /\ hdr = NoHeader
    /\ addr = NoAddress
    /\ ser = NoValue
    /\ iter = [its |-> [i \in 1 .. MaxIterators |-> NoIterator], subs |-> 0, bus |-> 0,
               seen |-> [of |-> 0, what |-> "nothing"]]

\* Connection::new: the outbound half, the Mutexes and the Events
InitSend ==
    /\ InitApart
    /\ outbound = [pos |-> 0, msgs |-> <<>>]
    /\ pcF = "idle"
    /\ flushRes = "NoResult"
    /\ flushLate = FALSE
    /\ sent = NoResult
    /\ acked = 0
    /\ handed = 0
    /\ written = <<>>
    /\ listeners = <<>>
    /\ awaitRes = NoResult
    /\ enqueued = <<>>
    /\ mutex = [m \in Mutexes |-> "none"]
    /\ activity = <<>>
    /\ closed = FALSE
    /\ closer = "idle"

\* inbound.pos without the bytes of raw_in_buffer
new_pos_empty(raw_in_buffer) == 0

\* line 65: pos: raw_in_buffer.len()
new_pos(raw_in_buffer) == BLen(raw_in_buffer)

\* Connection::new(socket, raw_in_buffer), raw_in_buffer being the first n
\* bytes of what the peer wrote
InitStream(lens, apis) ==
    /\ InitSend
    /\ InitTasks({}, {})
    /\ sm = [pc |-> "none", res |-> "NoResult"]
    /\ \E stream \in RawStreams, n \in lens :
        /\ n <= WireLen(AsWire(stream))
        /\ n > 0 => stream[1].fds = <<>>
        /\ wire = WireDrop(AsWire(stream), n)
        /\ LET raw_in_buffer == BTake(WireBytes(AsWire(stream)), n)
           IN  /\ inbound = [buffer |-> raw_in_buffer, fds |-> <<>>,
                             pos |-> new_pos(raw_in_buffer), prev_seq |-> 0]
               /\ frameIn = raw_in_buffer
        /\ peer \in {[stream |-> stream, pre |-> n, api |-> a] : a \in apis}
    /\ wireClosed \in BOOLEAN
    /\ grain = 1
    /\ conns = 1
    /\ pcR = "idle"
    /\ recvRes = NoResult
    /\ recvLate = FALSE
    /\ io = NoResult
    /\ fdsIn = <<>>
    /\ delivered = <<>>

InitRaw == InitStream(RawInLens, {"try_receive_message"})

NextRaw ==
    RecvStart \/ RecvLockSocket \/ RecvHeader \/ RecvParse \/ RecvBody \/ RecvComplete

SpecRaw == InitRaw /\ [][NextRaw]_vars

(***************************************************************************)
(* ReadHalf::receive_message, the default implementation over recvmsg, on  *)
(* the same streams.  The call owns bytes, pos and fds (inbound.buffer,    *)
(* .pos and .fds here); the first call is given the bytes the handshake    *)
(* read, every later call none.  An await of recvmsg ends with its result. *)
(***************************************************************************)
\* ReadHalf::recvmsg(buf).await with buf.len() = n
recvmsg(n) == {res \in poll_recvmsg(n) : res.kind # "Pending"}

\* lengths of already_received_bytes for the first call
ReadInLens == {0, 5, MIN_MESSAGE_SIZE, MIN_MESSAGE_SIZE + 4}

\* the call returns r and its locals are dropped
ReceiveReturn(r) ==
    /\ pcR' = "idle"
    /\ recvRes' = r
    /\ frameIn' = <<>>
    /\ fdsIn' = <<>>

\* the locals of a call that has returned; seq is the caller's count
dropped(seq) == [buffer |-> <<>>, fds |-> <<>>, pos |-> 0, prev_seq |-> seq]

\* lines 86-92: bytes is already_received_bytes or empty, pos its length;
\* with fewer than 16 bytes make room for them.  The caller reads the next
\* message as long as no call has failed.
ReceiveStart ==
    /\ pcR = "idle"
    /\ peer.api = "receive_message"
    /\ recvRes.kind \in {"NoResult", "Ok"}
    /\ recvRes' = NoResult
    /\ io' = NoResult
    /\ LET pos == BLen(inbound.buffer)
       IN  IF pos < MIN_MESSAGE_SIZE
           THEN /\ inbound' = [inbound EXCEPT !.buffer = Resize(@, MIN_MESSAGE_SIZE),
                                              !.pos = pos]
                /\ pcR' = "rm_hdr"
           ELSE /\ inbound' = [inbound EXCEPT !.pos = pos]
                /\ pcR' = "rm_parse"
    /\ frameIn' = inbound.buffer
    /\ UNCHANGED <<sendVars, senders, conf, wire, wireClosed, mutex, activity, closed,
                   closer, recvLate, fdsIn, delivered>>

\* lines 99-120: one round of the loop that completes the first 16 bytes
ReceiveHeader ==
    /\ pcR = "rm_hdr"
    /\ \E res \in recvmsg(BLen(inbound.buffer) - inbound.pos) :
        /\ io' = IF res.kind = "Ok" THEN [kind |-> "Ok", len |-> res.len] ELSE res
        /\ IF res.kind = "Err"
           THEN /\ ReceiveReturn([kind |-> "InputOutput"])
                /\ inbound' = dropped(inbound.prev_seq)
                /\ wire' = wire
           ELSE IF res.len = 0
           THEN /\ ReceiveReturn([kind |-> "UnexpectedEof"])
                /\ inbound' = dropped(inbound.prev_seq)
                /\ wire' = wire
           ELSE /\ inbound' = received(inbound, res)
                /\ wire' = WireDrop(wire, res.len)
                /\ frameIn' = BCat(frameIn, res.bytes)
                /\ fdsIn' = fdsIn \o res.fds
                /\ pcR' = IF inbound.pos + res.len < MIN_MESSAGE_SIZE
                          THEN "rm_hdr" ELSE "rm_parse"
                /\ recvRes' = recvRes
    /\ UNCHANGED <<sendVars, senders, conf, wireClosed, mutex, activity, closed, closer,
                   recvLate, delivered>>

\* lines 123-134: parse the primary header, bound the length, size bytes
ReceiveParse ==
    /\ pcR = "rm_parse"
    /\ LET h == read(inbound.buffer)
       IN  IF ~h.ok
           THEN /\ ReceiveReturn([kind |-> "Header", err |-> h.err])
                /\ inbound' = dropped(inbound.prev_seq)
           ELSE IF excess(total_len(h))
           THEN /\ ReceiveReturn([kind |-> "ExcessData"])
                /\ inbound' = dropped(inbound.prev_seq)
           ELSE /\ inbound' = [inbound EXCEPT !.buffer = Resize(@, total_len(h))]
                /\ pcR' = "rm_body"
                /\ UNCHANGED <<recvRes, frameIn, fdsIn>>
    /\ UNCHANGED <<sendVars, senders, conf, wire, wireClosed, mutex, activity, closed,
                   closer, recvLate, io, delivered>>

\* lines 137-160: one round of the loop that reads the rest of the message
ReceiveBody ==
    /\ pcR = "rm_body"
    /\ inbound.pos < BLen(inbound.buffer)
    /\ \E res \in recvmsg(BLen(inbound.buffer) - inbound.pos) :
        /\ io' = IF res.kind = "Ok" THEN [kind |-> "Ok", len |-> res.len] ELSE res
        /\ IF res.kind = "Err"
           THEN /\ ReceiveReturn([kind |-> "InputOutput"])
                /\ inbound' = dropped(inbound.prev_seq)
                /\ wire' = wire
           ELSE IF res.len = 0
           THEN /\ ReceiveReturn([kind |-> "UnexpectedEof"])
                /\ inbound' = dropped(inbound.prev_seq)
                /\ wire' = wire
           ELSE /\ inbound' = received(inbound, res)
                /\ wire' = WireDrop(wire, res.len)
                /\ frameIn' = BCat(frameIn, res.bytes)
                /\ fdsIn' = fdsIn \o res.fds
                /\ UNCHANGED <<pcR, recvRes>>
    /\ UNCHANGED <<sendVars, senders, conf, wireClosed, mutex, activity, closed, closer,
                   recvLate, delivered>>

\* lines 162-169: the message is complete; it gets the caller's sequence
ReceiveComplete ==
    /\ pcR = "rm_body"
    /\ inbound.pos >= BLen(inbound.buffer)
    /\ LET seq == inbound.prev_seq + 1
           msg == from_raw_parts(inbound.buffer, inbound.fds, seq)
       IN  /\ inbound' = dropped(seq)
           /\ IF msg.ok
              THEN /\ ReceiveReturn([kind |-> "Ok", msg |-> msg,
                                     read |-> frameIn, readFds |-> fdsIn])
                   /\ delivered' = Append(delivered, msg)
              ELSE /\ ReceiveReturn([kind |-> "Decode"])
                   /\ delivered' = delivered
    /\ UNCHANGED <<sendVars, senders, conf, wire, wireClosed, mutex, activity, closed,
                   closer, recvLate, io>>

receive_message ==
    ReceiveStart \/ ReceiveHeader \/ ReceiveParse \/ ReceiveBody \/ ReceiveComplete

\* the streams read through either of the two, as the reader was built
InitReceive == InitStream(ReadInLens, {"try_receive_message", "receive_message"})

NextReceive == NextRaw \/ receive_message

SpecReceive == InitReceive /\ [][NextReceive]_vars

(***************************************************************************)
(* The outbound half of conn0: enqueue_message, await_out_queue_ready and  *)
(* try_flush.  pcF is where the try_flush call that holds the outbound     *)
(* Mutex stands; "idle": no call holds it.                                 *)
(***************************************************************************)
\* Socket::poll_sendmsg(cx, data, fds): Pending, an I/O error, or Ok(n) with
\* n bytes of data written, the fds going with the first of them.
poll_sendmsg(data, fds) ==
    IF wireClosed \/ closed THEN {[kind |-> "Err"]}
    ELSE {[kind |-> "Pending"], [kind |-> "Err"], [kind |-> "Ok", n |-> 0]}
         \cup {[kind |-> "Ok", n |-> k] :
                 k \in Sizes(Min(BLen(data), WireCap - WireLen(wire)))}

\* data_of, off by one: the last byte counts as written
data_but_last(msg, pos) == BDrop(msg.bytes, pos + 1)

\* line 91: the bytes of msg not yet written
data_of(msg, pos) == BDrop(msg.bytes, pos)

\* fds_of without the test of the cursor
fds_always(msg, pos) == msg.fds

\* line 99: the fds go with the first write of a message only
fds_of(msg, pos) == IF pos = 0 THEN msg.fds ELSE <<>>

\* pop_front without outbound.pos = 0
pop_front_keep_pos(ob) == [pos |-> ob.pos, msgs |-> Tail(ob.msgs)]

\* lines 93-94
pop_front(ob) == [pos |-> 0, msgs |-> Tail(ob.msgs)]

\* queue_ready that finds the queue full whatever it holds
queue_ready_never(ob) == FALSE

\* line 117
queue_ready(ob) == Len(ob.msgs) < MAX_OUT_QUEUE_LEN

\* push_back that drops the message when the queue is at its depth
push_back_if_room(ob, msg) ==
    IF Len(ob.msgs) < MAX_OUT_QUEUE_LEN THEN [ob EXCEPT !.msgs = Append(@, msg)] ELSE ob

\* line 135: msgs.push_back(msg)
push_back(ob, msg) == [ob EXCEPT !.msgs = Append(@, msg)]

\* lines 130-136, under the outbound Mutex; the caller is left to itself
enqueue_message(msg) ==
    /\ unlocked(mutex, "outbound")
    /\ outbound' = push_back(outbound, msg)
    /\ enqueued' = Append(enqueued, msg)
    /\ UNCHANGED <<pcF, flushRes, sent, acked, handed, listeners, awaitRes, sm, fl,
                   flushLate, written, conf, wire, wireClosed, mutex, activity,
                   closed, closer, recvVars>>

\* lines 115-124, under the outbound Mutex; the caller is left to itself
await_out_queue_ready ==
    /\ unlocked(mutex, "outbound")
    /\ Len(listeners) < MaxListeners
    /\ IF queue_ready(outbound)
       THEN /\ awaitRes' = [kind |-> "None", len |-> Len(outbound.msgs)]
            /\ listeners' = listeners
       ELSE /\ awaitRes' = [kind |-> "Some", len |-> Len(outbound.msgs),
                            listener |-> Len(listeners) + 1]
            /\ listeners' = Append(listeners, "waiting")
    /\ UNCHANGED <<outbound, pcF, flushRes, sent, acked, handed, enqueued, sm, fl,
                   flushLate, written, conf, wire, wireClosed, mutex, activity,
                   closed, closer, recvVars>>

\* a failed write that gives the head message up
failed_drops_head(ob) == pop_front(ob)

\* lines 101-106: `?` returns the error before `outbound.pos +=` has run
failed(ob) == ob

\* the guard on outbound kept over the return
flush_guards_socket_only == {TxSocket}

\* the guards that are dropped when try_flush returns
flush_guards == {"outbound", TxSocket}

\* the call returns r: its guards are dropped
FlushReturn(r) ==
    /\ pcF' = "idle"
    /\ flushRes' = r
    /\ mutex' = Unlock(mutex, {m \in flush_guards : mutex[m] = mutex["outbound"]})
    /\ fl' = [fl EXCEPT ![mutex["outbound"]].pc = "idle"]

\* lines 85-86: notify activity and lock outbound (a task that waited for
\* the Mutex has notified when it called)
FlushStart ==
    \E t \in DOMAIN fl :
        /\ fl[t].pc \in {"idle", "waiting"}
        /\ unlocked(mutex, "outbound")
        /\ activity' = IF fl[t].pc = "idle" THEN activity_notified(activity) ELSE activity
        /\ mutex' = Lock(mutex, "outbound", t)
        /\ LET late == IF fl[t].pc = "idle" THEN closer = "done" ELSE fl[t].late
           IN  /\ fl' = [fl EXCEPT ![t] = [pc |-> "running", late |-> late]]
               /\ flushLate' = late
        /\ pcF' = "loop"
        /\ flushRes' = "NoResult"
        /\ sent' = NoResult
        /\ UNCHANGED <<outbound, acked, handed, listeners, awaitRes, enqueued, sm,
                       written, senders, conf, wire, wireClosed, closed, closer, recvVars>>

\* lines 85-86 with outbound locked by another call: notify activity and wait
\* for the Mutex
FlushWait ==
    \E t \in DOMAIN fl :
        /\ fl[t].pc = "idle"
        /\ ~unlocked(mutex, "outbound")
        /\ activity' = activity_notified(activity)
        /\ fl' = [fl EXCEPT ![t] = [pc |-> "waiting", late |-> closer = "done"]]
        /\ UNCHANGED <<outbound, pcF, flushRes, sent, acked, handed, listeners,
                       awaitRes, enqueued, sm, flushLate, written, senders, conf, wire,
                       wireClosed, mutex, closed, closer, recvVars>>

\* lines 90-100 with data not empty: lock the socket
FlushLockSocket ==
    /\ pcF = "loop"
    /\ outbound.msgs # <<>>
    /\ data_of(Head(outbound.msgs), outbound.pos) # <<>>
    /\ unlocked(mutex, TxSocket)
    /\ mutex' = Lock(mutex, TxSocket, mutex["outbound"])
    /\ pcF' = "send"
    /\ UNCHANGED <<outbound, flushRes, sent, acked, handed, listeners, awaitRes,
                   enqueued, sm, fl, flushLate, written, senders, conf, wire,
                   wireClosed, activity, closed, closer, recvVars>>

\* lines 101-107: one poll_sendmsg
FlushSend ==
    /\ pcF = "send"
    /\ LET msg == Head(outbound.msgs)
           data == data_of(msg, outbound.pos)
           fds == fds_of(msg, outbound.pos)
       IN  \E res \in poll_sendmsg(data, fds) :
               /\ sent' = [kind |-> res.kind, by |-> "try_flush",
                            at0 |-> (outbound.pos = 0), fds |-> fds, of |-> msg.fds]
               /\ IF res.kind = "Pending"
                  THEN /\ FlushReturn("Pending")
                       /\ UNCHANGED <<outbound, acked, handed, wire, written>>
                  ELSE IF res.kind = "Err"
                  THEN /\ FlushReturn("Err")
                       /\ outbound' = failed(outbound)
                       /\ UNCHANGED <<acked, handed, wire, written>>
                  ELSE /\ outbound' = [outbound EXCEPT !.pos = @ + res.n]
                       /\ acked' = acked + res.n
                       /\ handed' = IF res.n > 0 /\ fds # <<>> THEN handed + 1 ELSE handed
                       /\ wire' = IF res.n > 0
                                  THEN WirePut(wire, BTake(data, res.n), fds)
                                  ELSE wire
                       /\ written' = BCat(written, BTake(data, res.n))
                       /\ pcF' = "loop"
                       /\ mutex' = Unlock(mutex, {TxSocket})
                       /\ UNCHANGED <<flushRes, fl>>
    /\ UNCHANGED <<listeners, awaitRes, enqueued, sm, flushLate, senders, conf,
                   wireClosed, activity, closed, closer, recvVars>>

\* lines 92-97: every byte of the head message is written; pop it
FlushPop ==
    /\ pcF = "loop"
    /\ outbound.msgs # <<>>
    /\ data_of(Head(outbound.msgs), outbound.pos) = <<>>
    /\ outbound' = pop_front(outbound)
    /\ acked' = 0
    /\ handed' = 0
    /\ UNCHANGED <<pcF, flushRes, sent, listeners, awaitRes, enqueued, sm, fl,
                   flushLate, written, senders, conf, wire, wireClosed, mutex,
                   activity, closed, closer, recvVars>>

\* lines 87, 109-111: the queue is empty; notify out_queue_ready
FlushDone ==
    /\ pcF = "loop"
    /\ outbound.msgs = <<>>
    /\ listeners' = NotifyAll(listeners)
    /\ FlushReturn("Ok")
    /\ UNCHANGED <<outbound, sent, acked, handed, awaitRes, enqueued, sm, flushLate,
                   written, senders, conf, wire, wireClosed, activity, closed, closer,
                   recvVars>>

\* lines 237-240: notify activity, lock the socket, close it
Close ==
    /\ closer \in {"idle", "waiting"}
    /\ unlocked(mutex, TxSocket)
    /\ activity' = IF closer = "idle" THEN activity_notified(activity) ELSE activity
    /\ closed' = TRUE
    /\ closer' = "done"
    /\ UNCHANGED <<sendVars, senders, conf, wire, wireClosed, mutex, recvVars>>

\* lines 238-239 with the socket locked by another call: notify activity and
\* wait for the Mutex
CloseWait ==
    /\ closer = "idle"
    /\ ~unlocked(mutex, TxSocket)
    /\ activity' = activity_notified(activity)
    /\ closer' = "waiting"
    /\ UNCHANGED <<sendVars, senders, conf, wire, wireClosed, mutex, closed, recvVars>>

close == Close \/ CloseWait

(***************************************************************************)
(* The default WriteHalf::send_message (socket/mod.rs).                    *)
(***************************************************************************)
\* WriteHalf::sendmsg(buffer, fds).await: an I/O error or Ok(n); a socket that
\* is not ready makes the future wait, not return
sendmsg(data, fds) == {r \in poll_sendmsg(data, fds) : r.kind # "Pending"}

\* lines 212-216
half_fds(msg, pos) == IF pos = 0 THEN msg.fds ELSE <<>>

\* lines 205-209
SendMessageStart(msg) ==
    /\ sm.pc = "idle"
    /\ sm' = [pc |-> "loop", msg |-> msg, pos |-> 0, handed |-> 0, res |-> "NoResult"]
    /\ sent' = NoResult
    /\ UNCHANGED <<outbound, pcF, flushRes, acked, handed, listeners, awaitRes,
                   enqueued, fl, flushLate, written, senders, conf, wire, wireClosed,
                   mutex, activity, closed, closer, recvVars>>

\* lines 210-224: one round of the loop
SendMessageWrite ==
    /\ sm.pc = "loop"
    /\ sm.pos < BLen(sm.msg.bytes)
    /\ LET data == BDrop(sm.msg.bytes, sm.pos)
           fds == half_fds(sm.msg, sm.pos)
       IN  \E res \in sendmsg(data, fds) :
               /\ sent' = [kind |-> res.kind, by |-> "send_message",
                            at0 |-> (sm.pos = 0), fds |-> fds, of |-> sm.msg.fds]
               /\ IF res.kind = "Err"
                  THEN /\ sm' = [pc |-> "idle", res |-> "Err"]
                       /\ wire' = wire
                  ELSE /\ sm' = [sm EXCEPT !.pos = @ + res.n,
                                            !.handed = IF res.n > 0 /\ fds # <<>>
                                                       THEN @ + 1 ELSE @]
                       /\ wire' = IF res.n > 0
                                  THEN WirePut(wire, BTake(data, res.n), fds)
                                  ELSE wire
    /\ UNCHANGED <<outbound, pcF, flushRes, acked, handed, listeners, awaitRes,
                   enqueued, fl, flushLate, written, senders, conf, wireClosed,
                   mutex, activity, closed, closer, recvVars>>

\* lines 225-227
SendMessageDone ==
    /\ sm.pc = "loop"
    /\ ~(sm.pos < BLen(sm.msg.bytes))
    /\ sm' = [pc |-> "idle", res |-> "Ok"]
    /\ UNCHANGED <<outbound, pcF, flushRes, sent, acked, handed, listeners, awaitRes,
                   enqueued, fl, flushLate, written, senders, conf, wire, wireClosed,
                   mutex, activity, closed, closer, recvVars>>

try_flush == FlushStart \/ FlushLockSocket \/ FlushSend \/ FlushPop \/ FlushDone

try_receive_message ==
    RecvStart \/ RecvLockSocket \/ RecvHeader \/ RecvParse \/ RecvBody \/ RecvComplete

(***************************************************************************)
(* conn0 and conn1 on the two ends of a socket pair.                       *)
(***************************************************************************)
\* A, with two fds, and B, with one
MsgA == Encode(1, 1, <<1, 2>>, 9, 4)
MsgB == Encode(4, 2, <<3>>, 7, 8)
PairMsgs == {MsgA, MsgB}

\* the socket pair, nothing written yet
InitSocket ==
    /\ InitSend
    /\ grain = Grain
    /\ peer = [stream |-> <<>>, pre |-> 0, api |-> "try_receive_message"]
    /\ wire = <<>>
    /\ wireClosed = FALSE
    /\ inbound = [buffer |-> <<>>, fds |-> <<>>, pos |-> new_pos(<<>>), prev_seq |-> 0]
    /\ pcR = "idle"
    /\ recvRes = NoResult
    /\ recvLate = FALSE
    /\ io = NoResult
    /\ frameIn = <<>>
    /\ fdsIn = <<>>
    /\ delivered = <<>>

\* conn0 is a raw Connection: no WriteHalf writes to its socket
NoHalf == [pc |-> "none", res |-> "NoResult"]

\* conn0 and conn1, one task flushing conn0
InitPair == InitSocket /\ InitTasks({"f1"}, {}) /\ conns = 2 /\ sm = NoHalf

Enqueue ==
    /\ \E msg \in PairMsgs : Len(enqueued) < MaxPairMsgs /\ enqueue_message(msg)
    /\ UNCHANGED senders

Next == Enqueue \/ try_flush \/ try_receive_message

Spec == InitPair /\ [][Next]_vars

(***************************************************************************)
(* conn0 in front of a peer that reads now and then: the queue fills up.   *)
(***************************************************************************)
\* the peer takes what is in the socket
PeerRead ==
    /\ wire # <<>>
    /\ wire' = <<>>
    /\ UNCHANGED <<sendVars, senders, conf, wireClosed, mutex, activity, closed,
                   closer, recvVars>>

SendMessage ==
    /\ \E msg \in PairMsgs : SendMessageStart(msg)

send_message == SendMessage \/ SendMessageWrite \/ SendMessageDone

\* The socket is written by a raw Connection or through a WriteHalf, the peer
\* reading now and then.
InitWrite ==
    /\ InitSocket
    /\ InitTasks({"f1"}, {})
    /\ conns = 2
    /\ sm \in {NoHalf, [pc |-> "idle", res |-> "NoResult"]}

EnqueueRaw == sm = NoHalf /\ Enqueue

NextWrite == EnqueueRaw \/ try_flush \/ send_message \/ PeerRead

SpecWrite == InitWrite /\ [][NextWrite]_vars

\* conn0 with a task that goes on with every try_flush call it has made
NextFlush == Enqueue \/ try_flush \/ PeerRead

SpecFlush == InitPair /\ [][NextFlush]_vars /\ WF_vars(try_flush)

EnqueueMany ==
    /\ Len(enqueued) < MaxQueueMsgs
    /\ enqueue_message(OkA)
    /\ UNCHANGED senders

\* a caller that does nothing with what await_out_queue_ready returns
AwaitReady == await_out_queue_ready /\ UNCHANGED senders

NextQueue == EnqueueMany \/ AwaitReady \/ try_flush \/ PeerRead \/ monitor_activity

SpecQueue == InitPair /\ [][NextQueue]_vars

(***************************************************************************)
(* Tasks that send on conn0 the way its callers do: await_out_queue_ready, *)
(* wait for the listener if one is returned, then enqueue_message.         *)
(***************************************************************************)
Senders == {"s1", "s2"}

\* if let Some(listener) = await_out_queue_ready()
SenderAwait ==
    \E t \in DOMAIN senders :
        /\ senders[t].at = "idle"
        /\ await_out_queue_ready
        /\ senders' = [senders EXCEPT ![t] =
                          IF awaitRes'.kind = "None"
                          THEN [at |-> "go", listener |-> 0]
                          ELSE [at |-> "wait", listener |-> awaitRes'.listener]]

\* listener.await returns: the listener was notified
SenderWake ==
    \E t \in DOMAIN senders :
        /\ senders[t].at = "wait"
        /\ listeners[senders[t].listener] = "notified"
        /\ senders' = [senders EXCEPT ![t] = [at |-> "go", listener |-> 0]]
        /\ UNCHANGED <<sendVars, conf, wire, wireClosed, mutex, activity, closed,
                       closer, recvVars>>

\* then enqueue_message
SenderEnqueue ==
    \E t \in DOMAIN senders :
        /\ senders[t].at = "go"
        /\ Len(enqueued) < MaxQueueMsgs
        /\ enqueue_message(OkA)
        /\ senders' = [senders EXCEPT ![t] = [at |-> "idle", listener |-> 0]]

InitSenders == InitSocket /\ InitTasks({"f1"}, Senders) /\ conns = 2 /\ sm = NoHalf

NextSenders == SenderAwait \/ SenderWake \/ SenderEnqueue \/ try_flush \/ PeerRead

SpecSenders == InitSenders /\ [][NextSenders]_vars

(***************************************************************************)
(* One such sender on a connection that a task closes: a task keeps        *)
(* calling try_flush, and the sender goes on once its listener is          *)
(* notified.                                                               *)
(***************************************************************************)
InitUnusable == InitSocket /\ InitTasks({"f1"}, {"s1"}) /\ conns = 2 /\ sm = NoHalf

NextUnusable ==
    SenderAwait \/ SenderWake \/ SenderEnqueue \/ try_flush \/ PeerRead \/ close

SpecUnusable ==
    /\ InitUnusable
    /\ [][NextUnusable]_vars
    /\ WF_vars(try_flush)
    /\ WF_vars(SenderWake)

(***************************************************************************)
(* One Connection that sends and receives, on a socket whose peer sends    *)
(* back what it reads; two tasks flush it, one receives, one closes it.    *)
(***************************************************************************)
Flushers == {"f1", "f2"}

\* the Connection and its socket, nothing sent yet
InitLoopback ==
    /\ InitSend
    /\ sm = NoHalf
    /\ grain = ConnGrain
    /\ conns = 1
    /\ peer = [stream |-> <<>>, pre |-> 0, api |-> "try_receive_message"]
    /\ wire = <<>>
    /\ wireClosed = FALSE
    /\ inbound = [buffer |-> <<>>, fds |-> <<>>, pos |-> new_pos(<<>>), prev_seq |-> 0]
    /\ pcR = "idle"
    /\ recvRes = NoResult
    /\ recvLate = FALSE
    /\ io = NoResult
    /\ frameIn = <<>>
    /\ fdsIn = <<>>
    /\ delivered = <<>>

InitConn == InitLoopback /\ InitTasks(Flushers, {})

EnqueueConn ==
    /\ Len(enqueued) < MaxConnMsgs /\ enqueue_message(OkBody)
    /\ UNCHANGED senders

NextConn ==
    \/ EnqueueConn
    \/ try_flush
    \/ FlushWait
    \/ try_receive_message
    \/ close
    \/ monitor_activity

SpecConn == InitConn /\ [][NextConn]_vars

(***************************************************************************)
(* One Connection that a task flushes, one receives on and one closes,     *)
(* while a task u1 calls socket(), keeps what it returns for a while and   *)
(* calls enqueue_message in the meantime.                                  *)
(***************************************************************************)
Users == {"u1"}

\* lines 249-268: socket() locks the socket Mutex and returns the guard
\* inside a SocketDeref
UserSocket ==
    \E u \in DOMAIN senders :
        /\ senders[u].at = "idle"
        /\ unlocked(mutex, TxSocket)
        /\ mutex' = Lock(mutex, TxSocket, u)
        /\ senders' = [senders EXCEPT ![u].at = "holding"]
        /\ UNCHANGED <<sendVars, conf, wire, wireClosed, activity, closed, closer,
                       recvVars>>

\* the caller drops the SocketDeref
UserDrop ==
    \E u \in DOMAIN senders :
        /\ senders[u].at = "holding"
        /\ mutex' = Unlock(mutex, {TxSocket})
        /\ senders' = [senders EXCEPT ![u].at = "idle"]
        /\ UNCHANGED <<sendVars, conf, wire, wireClosed, activity, closed, closer,
                       recvVars>>

\* the caller calls enqueue_message with the SocketDeref in hand; a call
\* that finds outbound locked waits for it
UserEnqueue ==
    \E u \in DOMAIN senders :
        /\ senders[u].at \in {"holding", "blocked"}
        /\ Len(enqueued) <= MaxConnMsgs
        /\ enqueue_message(OkBody)
        /\ senders' = [senders EXCEPT ![u].at = "holding"]

UserBlock ==
    \E u \in DOMAIN senders :
        /\ senders[u].at = "holding"
        /\ Len(enqueued) <= MaxConnMsgs
        /\ ~unlocked(mutex, "outbound")
        /\ senders' = [senders EXCEPT ![u].at = "blocked"]
        /\ UNCHANGED <<sendVars, conf, wire, wireClosed, mutex, activity, closed,
                       closer, recvVars>>

InitGuard == InitLoopback /\ InitTasks({"f1"}, Users)

NextGuard ==
    \/ UserSocket
    \/ UserDrop
    \/ UserEnqueue
    \/ UserBlock
    \/ EnqueueConn
    \/ AwaitReady
    \/ try_flush
    \/ try_receive_message
    \/ close

SpecGuard == InitGuard /\ [][NextGuard]_vars

(***************************************************************************)
(* One Connection that two tasks flush while messages of two kinds are     *)
(* enqueued and the peer reads.                                            *)
(***************************************************************************)
EnqueueFlushers ==
    /\ \E msg \in {OkA, OkBody} : Len(enqueued) < MaxFlushMsgs /\ enqueue_message(msg)
    /\ UNCHANGED senders

NextFlushers ==
    \/ EnqueueFlushers
    \/ try_flush
    \/ FlushWait
    \/ PeerRead

SpecFlushers == InitConn /\ [][NextFlushers]_vars

(***************************************************************************)
(* PrimaryHeader and Header (zbus/src/message/header.rs).  An Option is a  *)
(* sequence of at most one value: <<>> is None, <<v>> is Some(v).          *)
(***************************************************************************)
\* the variables of the connections
connVars == <<sendVars, recvVars, senders, grain, peer, conns, wire, wireClosed,
              mutex, activity, closed, closer>>

\* body lengths given to PrimaryHeader::new
BodyLens == {0, 77}

\* PrimaryHeader::new(msg_type, body_len)
PrimaryHeader_new(msg_type, body_len) ==
    [endian_sig |-> NATIVE_ENDIAN_SIG,
     msg_type |-> msg_type,
     flags |-> 0,
     protocol_version |-> 1,
     body_len |-> body_len,
     serial_num |-> <<>>]

\* get_or_init that stores what its closure returns every time
get_or_init_always(cell, f) == [cell |-> <<f>>, ran |-> TRUE, ret |-> f]

\* OnceCell::get_or_init(f), f a closure that returns the value f: the cell
\* after the call, whether the closure ran, and the value referred to
get_or_init(cell, f) ==
    IF cell = <<>>
    THEN [cell |-> <<f>>, ran |-> TRUE, ret |-> f]
    ELSE [cell |-> cell, ran |-> FALSE, ret |-> cell[1]]

\* PrimaryHeader::serial_num(&self)
serial_num(primary) == primary.serial_num

\* PrimaryHeader::serial_num_or_init(&mut self, f)
serial_num_or_init(primary, f) ==
    LET r == get_or_init(primary.serial_num, f)
    IN  [primary |-> [primary EXCEPT !.serial_num = r.cell], ran |-> r.ran, ret |-> r.ret]

\* a header is made
NewPrimary ==
    /\ hdr.primary = <<>>
    /\ \E msg_type \in TypeCodes, body_len \in BodyLens :
        hdr' = [hdr EXCEPT !.primary = <<PrimaryHeader_new(msg_type, body_len)>>]
    /\ UNCHANGED <<connVars, addr, iter, ser>>

\* a call of serial_num on the header
SerialNum ==
    /\ hdr.primary # <<>>
    /\ Len(hdr.calls) < MaxSerialCalls
    /\ hdr' = [hdr EXCEPT !.calls = Append(@, [op |-> "serial_num",
                                                ret |-> serial_num(hdr.primary[1])])]
    /\ UNCHANGED <<connVars, addr, iter, ser>>

\* a call of serial_num_or_init on the header, with a closure that returns f
SerialNumOrInit ==
    /\ hdr.primary # <<>>
    /\ Len(hdr.calls) < MaxSerialCalls
    /\ \E f \in 1 .. MaxSerial :
        LET r == serial_num_or_init(hdr.primary[1], f)
        IN  hdr' = [hdr EXCEPT !.primary = <<r.primary>>,
                               !.calls = Append(@, [op |-> "serial_num_or_init", f |-> f,
                                                    ran |-> r.ran, ret |-> <<r.ret>>])]
    /\ UNCHANGED <<connVars, addr, iter, ser>>

NextSerial == NewPrimary \/ SerialNum \/ SerialNumOrInit

SpecSerial == InitConn /\ [][NextSerial]_vars

(***************************************************************************)
(* Header: a PrimaryHeader and Fields.  A Field is [kind, value], its kind *)
(* one of the nine variants; Fields keeps the fields in the order they     *)
(* were added, one per code.                                               *)
(***************************************************************************)
\* the variants of Field and their FieldCode, in the order of the accessors
FieldKinds ==
    <<"Path", "Interface", "Member", "ErrorName", "ReplySerial", "Destination",
      "Sender", "Signature", "UnixFDs">>

\* Field::code
code_of(field) == CHOOSE c \in 1 .. Len(FieldKinds) : FieldKinds[c] = field.kind

\* FieldCode::$kind
FieldCode(kind) == CHOOSE c \in 1 .. Len(FieldKinds) : FieldKinds[c] = kind

\* Fields::get_field(code): the field with that code, if any
get_field(fields, code) ==
    LET at == {i \in 1 .. Len(fields) : code_of(fields[i]) = code}
    IN  IF at = {} THEN <<>>
        ELSE <<fields[CHOOSE i \in at : \A j \in at : i <= j]>>

\* a macro that takes the first field of the header, whatever its code
get_field_of_first(h, kind) ==
    IF h.fields = <<>> THEN [ok |-> TRUE, value |-> <<>>]
    ELSE IF h.fields[1].kind = kind THEN [ok |-> TRUE, value |-> <<h.fields[1].value>>]
    ELSE [ok |-> FALSE, err |-> "InvalidField"]

\* the macro get_field!(self, $kind) (get_field_u32! copies the value)
get_field_of(h, kind) ==
    LET found == get_field(h.fields, FieldCode(kind))
    IN  IF found = <<>> THEN [ok |-> TRUE, value |-> <<>>]
        ELSE IF found[1].kind = kind THEN [ok |-> TRUE, value |-> <<found[1].value>>]
        ELSE [ok |-> FALSE, err |-> "InvalidField"]

\* the accessors of Header
message_type(h) == [ok |-> TRUE, value |-> h.primary[1].msg_type]
path(h) == get_field_of(h, "Path")
interface(h) == get_field_of(h, "Interface")
member(h) == get_field_of(h, "Member")
error_name(h) == get_field_of(h, "ErrorName")
reply_serial(h) == get_field_of(h, "ReplySerial")
destination(h) == get_field_of(h, "Destination")
sender(h) == get_field_of(h, "Sender")
signature(h) == get_field_of(h, "Signature")
unix_fds(h) == get_field_of(h, "UnixFDs")

\* Fields::add(field), for a code that is not there yet
AddField ==
    /\ Len(hdr.fields) < MaxFields
    /\ \E c \in 1 .. Len(FieldKinds), v \in 1 .. MaxValue :
        /\ \A i \in 1 .. Len(hdr.fields) : hdr.fields[i].kind # FieldKinds[c]
        /\ hdr' = [hdr EXCEPT !.fields = Append(@, [kind |-> FieldKinds[c], value |-> v])]
    /\ UNCHANGED <<connVars, addr, iter, ser>>

\* Header::new(primary, fields) on Fields filled by add, before or after
NextHeader == NewPrimary \/ AddField

SpecHeader == InitConn /\ [][NextHeader]_vars

(***************************************************************************)
(* The transports of an address (zbus/src/address/transport).  A string is *)
(* the sequence of its bytes; the options of a transport are a record with *)
(* an Option for each key the transport looks up.                          *)
(***************************************************************************)
\* an Err(Error::Address(..)) and an Ok(value)
AddressErr == [ok |-> FALSE, err |-> "Address"]
Ok(value) == [ok |-> TRUE, value |-> value]

\* the value of a hexadecimal digit, -1 for any other byte
HexVal(c) ==
    IF c \in 48 .. 57 THEN c - 48
    ELSE IF c \in 65 .. 70 THEN c - 55
    ELSE IF c \in 97 .. 102 THEN c - 87
    ELSE -1

\* decode_percents(value) from byte i on: %HH becomes the byte 0xHH, any
\* other byte stands for itself, a '%' without two hex digits is an error
RECURSIVE decode_from(_, _)
decode_from(value, i) ==
    IF i > Len(value) THEN Ok(<<>>)
    ELSE IF value[i] = 37
    THEN IF i + 2 > Len(value) \/ HexVal(value[i + 1]) < 0 \/ HexVal(value[i + 2]) < 0
         THEN AddressErr
         ELSE LET rest == decode_from(value, i + 3)
              IN  IF rest.ok
                  THEN Ok(<<16 * HexVal(value[i + 1]) + HexVal(value[i + 2])>> \o rest.value)
                  ELSE rest
    ELSE LET rest == decode_from(value, i + 1)
         IN  IF rest.ok THEN Ok(<<value[i]>> \o rest.value) ELSE rest

decode_percents(value) == decode_from(value, 1)

\* std::str::from_utf8(bytes).is_ok(), from byte i on
RECURSIVE is_utf8(_, _)
is_utf8(bytes, i) ==
    LET b == bytes[i]
        cont(k, lo, hi) == /\ i + k <= Len(bytes)
                           /\ bytes[i + 1] \in lo .. hi
                           /\ \A j \in 2 .. k : bytes[i + j] \in 128 .. 191
                           /\ is_utf8(bytes, i + k + 1)
    IN  IF i > Len(bytes) THEN TRUE
        ELSE IF b < 128 THEN is_utf8(bytes, i + 1)
        ELSE IF b \in 194 .. 223 THEN cont(1, 128, 191)
        ELSE IF b = 224 THEN cont(2, 160, 191)
        ELSE IF b = 237 THEN cont(2, 128, 159)
        ELSE IF b \in 225 .. 239 THEN cont(2, 128, 191)
        ELSE IF b = 240 THEN cont(3, 144, 191)
        ELSE IF b \in 241 .. 243 THEN cont(3, 128, 191)
        ELSE IF b = 244 THEN cont(3, 128, 143)
        ELSE FALSE

\* the decimal digits of u32::MAX, 4294967295
U32MaxDigits == <<4, 2, 9, 4, 9, 6, 7, 2, 9, 5>>

\* digits a < digits b, for two sequences of the same length
RECURSIVE DigitsLess(_, _)
DigitsLess(a, b) ==
    IF a = <<>> THEN FALSE
    ELSE IF Head(a) # Head(b) THEN Head(a) < Head(b)
    ELSE DigitsLess(Tail(a), Tail(b))

\* digits without their leading zeros
RECURSIVE Canon(_)
Canon(digits) ==
    IF Len(digits) > 1 /\ Head(digits) = 0 THEN Canon(Tail(digits)) ELSE digits

\* str::parse::<u32>: an optional '+', then one or more decimal digits whose
\* number is at most u32::MAX.  The number is kept as its decimal digits
\* without leading zeros.
parse_u32(s) ==
    LET digits == IF s # <<>> /\ s[1] = 43 THEN Tail(s) ELSE s
        number == Canon([i \in 1 .. Len(digits) |-> digits[i] - 48])
    IN  IF digits = <<>> \/ \E i \in 1 .. Len(digits) : digits[i] \notin 48 .. 57
        THEN [ok |-> FALSE]
        ELSE IF \/ Len(number) > Len(U32MaxDigits)
                \/ Len(number) = Len(U32MaxDigits) /\ DigitsLess(U32MaxDigits, number)
        THEN [ok |-> FALSE]
        ELSE Ok(number)

\* the builds of the crate: target_os = "linux", or any other
TargetOs == {"linux", "other"}

\* Unix::from_options(opts)
Unix_from_options(opts, target_os) ==
    LET p == opts.path
        abs == opts.abstract
        dir == opts.dir
        tmpdir == opts.tmpdir
    IN  IF p # <<>> /\ abs = <<>> /\ dir = <<>> /\ tmpdir = <<>>
        THEN Ok([path |-> [variant |-> "File", name |-> p[1]]])
        ELSE IF p = <<>> /\ abs # <<>> /\ dir = <<>> /\ tmpdir = <<>>
        THEN IF target_os = "linux"
             THEN Ok([path |-> [variant |-> "Abstract", name |-> abs[1]]])
             ELSE AddressErr
        ELSE IF p = <<>> /\ abs = <<>> /\ dir # <<>> /\ tmpdir = <<>>
        THEN Ok([path |-> [variant |-> "Dir", name |-> dir[1]]])
        ELSE IF p = <<>> /\ abs = <<>> /\ dir = <<>> /\ tmpdir # <<>>
        THEN Ok([path |-> [variant |-> "TmpDir", name |-> tmpdir[1]]])
        ELSE AddressErr

\* a from_options that takes a port that is missing or no u32 for port 0
Vsock_from_options_cid_only(opts) ==
    IF opts.cid = <<>> \/ ~parse_u32(opts.cid[1]).ok THEN AddressErr
    ELSE Ok([cid |-> parse_u32(opts.cid[1]).value,
             port |-> IF opts.port # <<>> /\ parse_u32(opts.port[1]).ok
                      THEN parse_u32(opts.port[1]).value ELSE <<0>>])

\* Vsock::from_options(opts)
Vsock_from_options(opts) ==
    IF opts.cid = <<>> THEN AddressErr
    ELSE LET cid == parse_u32(opts.cid[1])
         IN  IF ~cid.ok THEN AddressErr
             ELSE IF opts.port = <<>> THEN AddressErr
             ELSE LET port == parse_u32(opts.port[1])
                  IN  IF ~port.ok THEN AddressErr
                      ELSE Ok([cid |-> cid.value, port |-> port.value])

\* Launchd::from_options(opts)
Launchd_from_options(opts) ==
    IF opts.env = <<>> THEN AddressErr ELSE Ok([env |-> opts.env[1]])

\* Autolaunch::from_options(opts)
Autolaunch_from_options(opts) ==
    IF opts.scope = <<>> THEN Ok([scope |-> <<>>])
    ELSE LET decoded == decode_percents(opts.scope[1])
         IN  IF ~decoded.ok THEN AddressErr
             ELSE IF ~is_utf8(decoded.value, 1) THEN AddressErr
             ELSE Ok([scope |-> <<decoded.value>>])

\* the bytes '%', '4', '1' and 'F', and every string of them up to MaxValueLen
EscAlphabet == {37, 52, 49, 70}
EscValues == UNION {[1 .. n -> EscAlphabet] : n \in 0 .. MaxValueLen}

\* values of the keys of unix: "a", "%41" and "%FF"
UnixValues == {<<97>>, <<37, 52, 49>>, <<37, 70, 70>>}

\* values of cid and port: "", "0", "7", "+7", "+", "-1", "a", "007", "%37",
\* "4294967295" and "4294967296"
VsockValues ==
    {<<>>, <<48>>, <<55>>, <<43, 55>>, <<43>>, <<45, 49>>, <<97>>, <<48, 48, 55>>,
     <<37, 51, 55>>,
     <<52, 50, 57, 52, 57, 54, 55, 50, 57, 53>>,
     <<52, 50, 57, 52, 57, 54, 55, 50, 57, 54>>}

\* values of scope: those of EscValues and "%C3%A9", the two bytes of U+00E9
ScopeValues == EscValues \cup {<<37, 67, 51, 37, 65, 57>>}

\* the options that hold each key of keys with a value of values, or not
Options(keys, values) == [keys -> {<<>>} \cup {<<v>> : v \in values}]

\* Unix::from_options on the options of a "unix:" address
UnixFromOptions ==
    /\ \E target_os \in TargetOs,
          opts \in Options({"path", "abstract", "dir", "tmpdir"}, UnixValues) :
        addr' = [kind |-> "unix", target_os |-> target_os, opts |-> opts,
                 result |-> Unix_from_options(opts, target_os)]
    /\ UNCHANGED <<connVars, hdr, iter, ser>>

\* Vsock::from_options on the options of a "vsock:" address
VsockFromOptions ==
    /\ \E opts \in Options({"cid", "port"}, VsockValues) :
        addr' = [kind |-> "vsock", opts |-> opts, result |-> Vsock_from_options(opts)]
    /\ UNCHANGED <<connVars, hdr, iter, ser>>

\* Launchd::from_options on the options of a "launchd:" address
LaunchdFromOptions ==
    /\ \E opts \in Options({"env"}, EscValues) :
        addr' = [kind |-> "launchd", opts |-> opts, result |-> Launchd_from_options(opts)]
    /\ UNCHANGED <<connVars, hdr, iter, ser>>

\* Autolaunch::from_options on the options of an "autolaunch:" address
AutolaunchFromOptions ==
    /\ \E opts \in Options({"scope"}, ScopeValues) :
        addr' = [kind |-> "autolaunch", opts |-> opts,
                 result |-> Autolaunch_from_options(opts)]
    /\ UNCHANGED <<connVars, hdr, iter, ser>>

NextAddress ==
    \/ UnixFromOptions
    \/ VsockFromOptions
    \/ LaunchdFromOptions
    \/ AutolaunchFromOptions

SpecAddress == InitConn /\ [][NextAddress]_vars

(***************************************************************************)
(* blocking::MessageIterator (zbus/src/blocking/message_iterator.rs).      *)
(* `iter.its` holds the iterators made over one connection, `iter.subs`    *)
(* the streams subscribed to the match rule on that connection and         *)
(* `iter.bus` the registrations of the rule on the bus.                    *)
(***************************************************************************)
Iterators == 1 .. MaxIterators

\* MessageStream::for_match_rule: subscribe, and AddMatch for the first
\* subscriber of the rule
stream_for_match_rule(it) ==
    [it EXCEPT !.subs = @ + 1, !.bus = IF it.subs = 0 THEN @ + 1 ELSE @]

\* MessageIterator::for_match_rule(rule, conn, max_queued), when Ok
ForMatchRule ==
    /\ \E i \in Iterators :
        /\ iter.its[i].pc = "none"
        /\ iter' = [stream_for_match_rule(iter) EXCEPT
                        !.its[i].pc = "live", !.its[i].rule = TRUE,
                        !.its[i].azync = <<[rule |-> TRUE]>>]
    /\ UNCHANGED <<connVars, hdr, addr, ser>>

\* From<Connection> for MessageIterator: a stream without a match rule
FromConnection ==
    /\ \E i \in Iterators :
        /\ iter.its[i].pc = "none"
        /\ iter' = [iter EXCEPT !.its[i].pc = "live",
                                !.its[i].azync = <<[rule |-> FALSE]>>]
    /\ UNCHANGED <<connVars, hdr, addr, ser>>

\* lines 28, 34, 113, 122, 143 and 151: Option::expect("Inner stream is
\* `None`") on azync panics when the stream is gone
expect_panics(azync) == azync = <<>>

\* after a call on the iterator i that looks at the stream through expect
\* and returns what; `seen` is what the last call by reference returned
looked(it, i, what) ==
    IF expect_panics(it.its[i].azync)
    THEN [it EXCEPT !.its[i].panicked = TRUE]
    ELSE [it EXCEPT !.seen = [of |-> i, what |-> what]]

\* Iterator::next
IterNext ==
    /\ \E i \in Iterators :
        /\ iter.its[i].pc = "live"
        /\ iter.its[i].yielded < MaxNext
        /\ iter' = looked([iter EXCEPT !.its[i].yielded = @ + 1], i, "message")
    /\ UNCHANGED <<connVars, hdr, addr, ser>>

\* MessageIterator::inner
Inner ==
    /\ \E i \in Iterators :
        /\ iter.its[i].pc = "live"
        /\ iter' = looked(iter, i, "stream")
    /\ UNCHANGED <<connVars, hdr, addr, ser>>

\* MessageIterator::match_rule
MatchRule ==
    /\ \E i \in Iterators :
        /\ iter.its[i].pc = "live"
        /\ iter' = looked(iter, i, IF iter.its[i].rule THEN "rule" ELSE "no rule")
    /\ UNCHANGED <<connVars, hdr, addr, ser>>

\* From<&MessageIterator> for Connection
AsConnection ==
    /\ \E i \in Iterators :
        /\ iter.its[i].pc = "live"
        /\ iter' = looked(iter, i, "connection")
    /\ UNCHANGED <<connVars, hdr, addr, ser>>

\* a clone that comes without the stream
clone_without_stream(azync) == <<>>

\* line 13: derive(Clone) clones the Option and the stream in it
clone(azync) == azync

\* MessageIterator::clone: the clone j of i; its stream, if it has a match
\* rule, is one more subscriber of the rule
Clone ==
    /\ \E i, j \in Iterators :
        /\ iter.its[i].pc = "live"
        /\ iter.its[j].pc = "none"
        /\ LET azync == clone(iter.its[i].azync)
           IN  iter' = [iter EXCEPT
                           !.subs = IF azync # <<>> /\ azync[1].rule THEN @ + 1 ELSE @,
                           !.seen = [of |-> i, what |-> "clone"],
                           !.its[j].pc = "live",
                           !.its[j].rule = iter.its[i].rule,
                           !.its[j].azync = azync]
    /\ UNCHANGED <<connVars, hdr, addr, ser>>

\* a drop that leaves the stream where it is and returns
drop_without_take(it, i) == [it EXCEPT !.its[i].pc = "dropped"]

\* AsyncDrop::async_drop(stream) up to its first await: the stream leaves
\* the subscribers of its rule, and the last one to leave calls RemoveMatch
async_drop(it, i, stream) ==
    IF ~stream.rule THEN [it EXCEPT !.its[i].pc = "async_done"]
    ELSE [it EXCEPT !.subs = @ - 1,
                    !.its[i].pc = IF it.subs = 1 THEN "remove_match" ELSE "async_done"]

\* Drop::drop up to the first await inside block_on: take the stream and
\* call async_drop on it, or return at once if the stream is gone
drop(it, i) ==
    IF it.its[i].azync # <<>>
    THEN async_drop([it EXCEPT !.its[i].azync = <<>>, !.its[i].async_drops = @ + 1],
                    i, it.its[i].azync[1])
    ELSE [it EXCEPT !.its[i].pc = "dropped"]

\* a live iterator goes out of scope
Drop ==
    /\ \E i \in Iterators :
        /\ iter.its[i].pc = "live"
        /\ iter' = drop([iter EXCEPT !.its[i].owned = TRUE], i)
    /\ UNCHANGED <<connVars, hdr, addr, ser>>

\* the reply to RemoveMatch arrives: async_drop is complete
RemoveMatchReply ==
    /\ \E i \in Iterators :
        /\ iter.its[i].pc = "remove_match"
        /\ iter' = [iter EXCEPT !.bus = @ - 1, !.its[i].pc = "async_done"]
    /\ UNCHANGED <<connVars, hdr, addr, ser>>

\* block_on returns with the future complete, and drop returns
DropReturn ==
    /\ \E i \in Iterators :
        /\ iter.its[i].pc = "async_done"
        /\ iter' = [iter EXCEPT !.its[i].pc = "dropped", !.its[i].completed = @ + 1]
    /\ UNCHANGED <<connVars, hdr, addr, ser>>

\* MessageIterator::into_inner: take the stream, then self is dropped
IntoInner ==
    /\ \E i \in Iterators :
        /\ iter.its[i].pc = "live"
        /\ iter' = drop([iter EXCEPT !.its[i].azync = <<>>, !.its[i].moved = "into_inner",
                                     !.its[i].panicked = expect_panics(iter.its[i].azync)],
                        i)
    /\ UNCHANGED <<connVars, hdr, addr, ser>>

\* From<MessageIterator> for Connection: take the stream, then iter is dropped
IntoConnection ==
    /\ \E i \in Iterators :
        /\ iter.its[i].pc = "live"
        /\ iter' = drop([iter EXCEPT !.its[i].azync = <<>>, !.its[i].moved = "connection",
                                     !.its[i].panicked = expect_panics(iter.its[i].azync)],
                        i)
    /\ UNCHANGED <<connVars, hdr, addr, ser>>

NextIterator ==
    \/ ForMatchRule
    \/ FromConnection
    \/ IterNext
    \/ Drop
    \/ RemoveMatchReply
    \/ DropReturn
    \/ IntoInner
    \/ IntoConnection

SpecIterator == InitConn /\ [][NextIterator]_vars

\* every public operation of MessageIterator
NextOperations == NextIterator \/ Inner \/ MatchRule \/ AsConnection \/ Clone

SpecOperations == InitConn /\ [][NextOperations]_vars

(***************************************************************************)
(* zvariant's serialized_size and to_bytes (zvariant/src/ser.rs) in the    *)
(* D-Bus format.  A value is a sequence of elements: a byte `y`, a u32 `u` *)
(* or a file descriptor `h`; a serializer is [ctxt, writer, bytes_written, *)
(* fds], its writer a cursor over the bytes written so far or a           *)
(* NullWriteSeek, its fds an FdList.                                       *)
(***************************************************************************)
MaxElems == 3
MaxPosition == 3

\* the raw fds a value may hold
RawFds == {5, 6}

Elems ==
    {[sig |-> "y", v |-> 7], [sig |-> "u", v |-> 9]}
        \cup {[sig |-> "h", v |-> fd] : fd \in RawFds}

SerValues == UNION {[1 .. n -> Elems] : n \in 0 .. MaxElems}

Contexts == [position : 0 .. MaxPosition, B : {"LE", "BE"}]

\* Vec::iter().position(|x| x.as_raw_fd() == fd): 0-based, <<>> when absent
position(fds, fd) ==
    LET at == {i \in 1 .. Len(fds) : fds[i] = fd}
    IN  IF at = {} THEN <<>> ELSE <<(CHOOSE i \in at : \A j \in at : i <= j) - 1>>

\* lines 283-307: SerializerCommon::add_fd; try_clone_to_owned fails when
\* dup_ok is FALSE
add_fd(fds, fd, dup_ok) ==
    IF fds.kind = "Number"
    THEN [ok |-> TRUE, fds |-> [fds EXCEPT !.n = @ + 1],
          idx |-> fds.n]
    ELSE LET found == position(fds.fds, fd)
         IN  IF found # <<>> THEN [ok |-> TRUE, fds |-> fds, idx |-> found[1]]
             ELSE IF ~dup_ok THEN [ok |-> FALSE]
             ELSE [ok |-> TRUE, fds |-> [fds EXCEPT !.fds = Append(@, fd)],
                   idx |-> Len(fds.fds)]

\* lines 24-27 and 363-369: Write::write counts the bytes the writer took;
\* NullWriteSeek takes them all and keeps none
write(s, buf) ==
    [s EXCEPT !.writer = IF @.kind = "null" THEN @ ELSE [@ EXCEPT !.bytes = @ \o buf],
              !.bytes_written = @ + Len(buf)]

\* lines 350-352
abs_pos(s) == s.ctxt.position + s.bytes_written

\* utils::padding_for_n_bytes
padding_for_n_bytes(pos, alignment) == (alignment - (pos % alignment)) % alignment

\* lines 309-320
add_padding(s, alignment) ==
    write(s, [i \in 1 .. padding_for_n_bytes(abs_pos(s), alignment) |-> 0])

\* WriteBytesExt::write_u32::<B>
u32_bytes(B, v) == IF B = "LE" THEN <<v, 0, 0, 0>> ELSE <<0, 0, 0, v>>

\* Serializer::serialize_u8, serialize_u32 and, for `h`, serialize_i32: the
\* fd goes to add_fd and its index is written as a u32
serialize(s, elem, dup_ok) ==
    IF elem.sig = "y" THEN [ok |-> TRUE, s |-> write(add_padding(s, 1), <<elem.v>>)]
    ELSE IF elem.sig = "u"
    THEN [ok |-> TRUE, s |-> write(add_padding(s, 4), u32_bytes(s.ctxt.B, elem.v))]
    ELSE LET added == add_fd(s.fds, elem.v, dup_ok)
         IN  IF ~added.ok THEN [ok |-> FALSE]
             ELSE [ok |-> TRUE,
                   s |-> write(add_padding([s EXCEPT !.fds = added.fds], 4),
                               u32_bytes(s.ctxt.B, added.idx))]

\* value.serialize(&mut ser)?
RECURSIVE serialize_value(_, _, _)
serialize_value(s, value, dup_ok) ==
    IF value = <<>> THEN [ok |-> TRUE, s |-> s]
    ELSE LET head == serialize(s, Head(value), dup_ok)
         IN  IF ~head.ok THEN head ELSE serialize_value(head.s, Tail(value), dup_ok)

\* lines 54-98
serialized_size(ctxt, value) ==
    LET null == [kind |-> "null"]
        fds == [kind |-> "Number", n |-> 0]
        ser0 == [ctxt |-> ctxt, writer |-> null, bytes_written |-> 0, fds |-> fds]
        done == serialize_value(ser0, value, TRUE)
    IN  [ok |-> TRUE, len |-> done.s.bytes_written, num_fds |-> done.s.fds.n]

\* lines 170-217
to_writer_for_signature(writer, ctxt, value, dup_ok) ==
    LET fds == [kind |-> "Fds", fds |-> <<>>]
        ser0 == [ctxt |-> ctxt, writer |-> writer, bytes_written |-> 0, fds |-> fds]
        done == serialize_value(ser0, value, dup_ok)
    IN  IF ~done.ok THEN [ok |-> FALSE]
        ELSE [ok |-> TRUE, cursor |-> done.s.writer, len |-> done.s.bytes_written,
              fds |-> done.s.fds.fds]

\* lines 229-253 (and to_bytes, lines 145-151)
to_bytes_for_signature(ctxt, value, dup_ok) ==
    LET cursor == [kind |-> "cursor", bytes |-> <<>>]
        ret == to_writer_for_signature(cursor, ctxt, value, dup_ok)
    IN  IF ~ret.ok THEN [ok |-> FALSE, err |-> "InputOutput"]
        ELSE [ok |-> TRUE, bytes |-> ret.cursor.bytes, fds |-> ret.fds]

\* serialized_size(ctxt, &value), of a new value or of the one serialized
SerializedSize ==
    /\ ser.size = <<>>
    /\ \E ctxt \in Contexts, value \in SerValues :
        /\ ser.data # <<>> => (ctxt = ser.ctxt[1] /\ value = ser.value[1])
        /\ ser' = [ser EXCEPT !.ctxt = <<ctxt>>, !.value = <<value>>,
                              !.size = <<serialized_size(ctxt, value)>>]
    /\ UNCHANGED <<connVars, hdr, addr, iter>>

\* to_bytes(ctxt, &value), of a new value or of the one measured
ToBytes ==
    /\ ser.data = <<>>
    /\ \E ctxt \in Contexts, value \in SerValues, dup_ok \in BOOLEAN :
        /\ ser.size # <<>> => (ctxt = ser.ctxt[1] /\ value = ser.value[1])
        /\ ser' = [ser EXCEPT !.ctxt = <<ctxt>>, !.value = <<value>>,
                              !.data = <<to_bytes_for_signature(ctxt, value, dup_ok)>>]
    /\ UNCHANGED <<connVars, hdr, addr, iter>>

NextSer == SerializedSize \/ ToBytes

SpecSer == InitConn /\ [][NextSer]_vars

(***************************************************************************)
(* The properties.                                                         *)
(***************************************************************************)
\* 16 + fields_len + pad8(16 + fields_len) + body_len of the frame that
\* starts with the 16 bytes of b
FrameLen(b) ==
    LET fields_len == NativeU32(b, 12)
        body_len == NativeU32(b, 4)
    IN  16 + fields_len + ((8 - ((16 + fields_len) % 8)) % 8) + body_len

\* C1: what conn1 returns is, message by message, what was enqueued on conn0,
\* in enqueue order, bytes and fds alike; once everything enqueued is flushed
\* and read, every message was returned.
C1_RoundTrip ==
    /\ Len(delivered) <= Len(enqueued)
    /\ \A i \in 1 .. Len(delivered) :
        /\ delivered[i].bytes = enqueued[i].bytes
        /\ delivered[i].fds = enqueued[i].fds
    /\ (outbound.msgs = <<>> /\ wire = <<>> /\ inbound.pos = 0)
        => Len(delivered) = Len(enqueued)

C1_Witness ==
    /\ Len(delivered) = 2
    /\ delivered[1].bytes = MsgA.bytes
    /\ delivered[2].bytes = MsgB.bytes
    /\ delivered[2].fds = <<3>>

\* C2: try_flush and send_message pass the fds of a message to sendmsg when
\* and only when the cursor is 0, and the fds of a message get onto the socket
\* once: with the first write that writes bytes of it.
C2_FdsOnFirstWriteOnly ==
    /\ sent.kind # "NoResult" => sent.fds = (IF sent.at0 THEN sent.of ELSE <<>>)
    /\ handed <= 1
    /\ (outbound.msgs # <<>> /\ Head(outbound.msgs).fds # <<>>)
        => (handed = 1 <=> outbound.pos > 0)
    /\ (sm.pc = "loop" /\ sm.msg.fds # <<>>) => (sm.handed = 1 <=> sm.pos > 0)

C2_Witness ==
    /\ sent.kind = "Ok"
    /\ sent.by = "try_flush"
    /\ ~sent.at0
    /\ sent.of # <<>>
    /\ handed = 1

\* C3: the head message is popped only when the byte counts acknowledged for
\* it add up to its length, and the cursor is then 0; after try_flush returned
\* Pending the head is still queued, the cursor at the bytes acknowledged.
C3_PopOnlyWhenAcked ==
    /\ [][Len(outbound'.msgs) < Len(outbound.msgs)
            => /\ acked = BLen(Head(outbound.msgs).bytes)
               /\ outbound'.pos = 0]_vars
    /\ [](flushRes = "Pending"
            => /\ outbound.msgs # <<>>
               /\ outbound.pos = acked
               /\ acked < BLen(Head(outbound.msgs).bytes))

C3_Witness ==
    /\ flushRes = "Pending"
    /\ outbound.pos > 0
    /\ Len(enqueued) = 2
    /\ Len(outbound.msgs) = 1

\* C4: a message is returned only when every byte of its frame was read: it
\* has the length its first 16 bytes announce and is made of the bytes read
\* for it.
C4_OnlyCompleteFrames ==
    /\ recvRes.kind = "Ok"
        => /\ BLen(recvRes.msg.bytes) = FrameLen(recvRes.msg.bytes)
           /\ BLen(recvRes.read) >= BLen(recvRes.msg.bytes)
           /\ recvRes.msg.bytes = BTake(recvRes.read, BLen(recvRes.msg.bytes))
    /\ \A i \in 1 .. Len(delivered) :
        BLen(delivered[i].bytes) = FrameLen(delivered[i].bytes)

C4_Witness ==
    /\ recvRes.kind = "Ok"
    /\ recvRes.msg.bytes = OkBody.bytes
    /\ peer.pre = 5

\* C5: after a Pending return the buffer holds the bytes read so far up to the
\* cursor, and the fds; and whatever the splits and the Pending points, the
\* message returned as the n-th frame is the n-th frame the peer wrote (of a
\* raw_in_buffer that reaches beyond the first frame, the first frame).
C5_ResumeAfterPending ==
    /\ (pcR = "idle" /\ recvRes.kind = "Pending")
        => /\ inbound.pos = BLen(frameIn)
           /\ BTake(inbound.buffer, inbound.pos) = frameIn
           /\ inbound.fds = fdsIn
    /\ peer.stream # <<>>
        => \A i \in 1 .. Len(delivered) :
            (delivered[i].recv_seq = 1 \/ peer.pre <= BLen(peer.stream[1].bytes))
                => /\ delivered[i].recv_seq <= Len(peer.stream)
                   /\ delivered[i].bytes = peer.stream[delivered[i].recv_seq].bytes
                   /\ delivered[i].fds = peer.stream[delivered[i].recv_seq].fds

C5_Witness ==
    /\ pcR = "idle"
    /\ recvRes.kind = "Pending"
    /\ Len(delivered) = 1
    /\ inbound.pos > MIN_MESSAGE_SIZE
    /\ incomplete(inbound)

\* C6: a poll_recvmsg that reports 0 bytes makes the call return
\* UnexpectedEof, in the header loop and in the loop that reads the rest.
C6_EofIsUnexpectedEof ==
    (io.kind = "Ok" /\ io.len = 0) => (pcR = "idle" /\ recvRes.kind = "UnexpectedEof")

\* C7: ExcessData is returned exactly for a frame longer than
\* MAX_MESSAGE_SIZE, with the buffer not grown and nothing more read; a frame
\* of up to MAX_MESSAGE_SIZE goes on to be read.
C7_ExcessDataBound ==
    /\ recvRes.kind = "ExcessData"
        => /\ FrameLen(inbound.buffer) > MAX_MESSAGE_SIZE
           /\ BLen(inbound.buffer) = inbound.pos
           /\ inbound.pos = BLen(frameIn)
    /\ pcR = "body" => FrameLen(inbound.buffer) <= MAX_MESSAGE_SIZE
    /\ recvRes.kind = "Ok" => BLen(recvRes.msg.bytes) <= MAX_MESSAGE_SIZE

C7_Witness ==
    /\ recvRes.kind = "Ok"
    /\ BLen(recvRes.msg.bytes) = MAX_MESSAGE_SIZE

\* C8: the messages returned carry the receive sequence numbers 1, 2, 3, ...
C8_SeqGapFree == \A i \in 1 .. Len(delivered) : delivered[i].recv_seq = i

\* C9: a message is returned with the fds that came with the reads of its own
\* bytes, the accumulator is empty when a frame starts, and a sendmsg call
\* carries no fds but those of the message whose bytes it carries.
C9_FdsStayWithTheirMessage ==
    /\ recvRes.kind = "Ok" => recvRes.msg.fds = recvRes.readFds
    /\ inbound.pos = 0 => inbound.fds = <<>>
    /\ sent.kind # "NoResult" => sent.fds \in {<<>>, sent.of}
    /\ \A i \in 1 .. Len(delivered) : delivered[i].fds = enqueued[i].fds

C9_Witness ==
    /\ Len(delivered) = 2
    /\ delivered[1].fds = <<1, 2>>
    /\ delivered[2].fds = <<3>>
    /\ inbound.pos = 0

\* C10: await_out_queue_ready hands out a listener exactly when the queue
\* holds MAX_OUT_QUEUE_LEN messages or more; a try_flush that returned Ok
\* left the queue empty and every listener notified, so that a call after it
\* returns None.
C10_Backpressure ==
    /\ [](/\ awaitRes.kind = "Some" => awaitRes.len >= MAX_OUT_QUEUE_LEN
          /\ awaitRes.kind = "None" => awaitRes.len < MAX_OUT_QUEUE_LEN
          /\ (flushRes = "Ok" /\ outbound.msgs = <<>>)
              => \A i \in 1 .. Len(listeners) : listeners[i] = "notified")
    /\ [][flushRes' = "Ok" /\ flushRes # "Ok" => outbound'.msgs = <<>>]_vars

C10_Witness ==
    /\ flushRes = "Ok"
    /\ Len(listeners) = 1
    /\ listeners[1] = "notified"
    /\ awaitRes.kind = "None"
    /\ Len(enqueued) = 5

\* C11: with senders that enqueue only after await_out_queue_ready returned
\* None or their listener was notified, the queue never holds more than
\* MAX_OUT_QUEUE_LEN messages.
C11_QueueDepthBounded == Len(outbound.msgs) <= MAX_OUT_QUEUE_LEN

\* C12: once try_flush has returned with fewer than MAX_OUT_QUEUE_LEN messages
\* queued, Pending included, no listener of out_queue_ready is left waiting.
C12_NotifiedBelowHighWater ==
    (pcF = "idle" /\ flushRes \in {"Pending", "Ok"}
        /\ Len(outbound.msgs) < MAX_OUT_QUEUE_LEN)
        => \A i \in 1 .. Len(listeners) : listeners[i] = "notified"

\* C13: a step that enqueues appends the message at the back of the queue,
\* whatever its length, and leaves the cursor, the messages queued before, the
\* socket, the Mutexes and the listeners of both Events as they were.
C13_EnqueueOnlyAppends ==
    [][enqueued' # enqueued
        => /\ outbound'.msgs = Append(outbound.msgs, enqueued'[Len(enqueued')])
           /\ outbound'.pos = outbound.pos
           /\ wire' = wire
           /\ written' = written
           /\ mutex' = mutex
           /\ listeners' = listeners
           /\ activity' = activity]_vars

C13_Witness ==
    /\ Len(outbound.msgs) = MAX_OUT_QUEUE_LEN + 1
    /\ outbound.pos > 0
    /\ Len(listeners) > 0
    /\ Len(activity) > 0

\* the bytes of the messages of a queue, in queue order
RECURSIVE QueuedBytes(_)
QueuedBytes(msgs) ==
    IF msgs = <<>> THEN <<>> ELSE BCat(Head(msgs).bytes, QueuedBytes(Tail(msgs)))

\* C14: with several tasks calling try_flush, at most one of them is inside
\* the call and it is the one that holds the outbound Mutex (and the socket
\* while it writes); the bytes written to the socket are a prefix of the
\* bytes of the enqueued messages in queue order, and their number is the
\* length of the popped messages plus the cursor: no byte is written twice
\* or skipped, whichever call wrote it.
C14_OneWriterInOrder ==
    /\ Cardinality({t \in DOMAIN fl : fl[t].pc = "running"}) <= 1
    /\ \A t \in DOMAIN fl : fl[t].pc = "running" <=> mutex["outbound"] = t
    /\ pcF # "idle" <=> mutex["outbound"] # "none"
    /\ pcF = "send" => mutex[TxSocket] = mutex["outbound"]
    /\ written = BTake(QueuedBytes(enqueued), BLen(written))
    /\ BLen(written) =
        (BLen(QueuedBytes(enqueued)) - BLen(QueuedBytes(outbound.msgs))) + outbound.pos

\* a call returned Pending inside the first of two messages of different
\* kinds; the next call holds the socket to continue it while the other
\* task waits for the outbound Mutex
C14_Witness ==
    /\ fl["f1"].pc = "waiting"
    /\ fl["f2"].pc = "running"
    /\ pcF = "send"
    /\ sent = NoResult
    /\ outbound.pos > 0
    /\ Len(outbound.msgs) = 2
    /\ outbound.msgs[1] # outbound.msgs[2]

\* C15: receiving and sending share no lock: while try_receive_message is
\* inside poll_recvmsg, a try_flush that has bytes to write finds the lock it
\* needs for poll_sendmsg free, and while try_flush is inside poll_sendmsg, a
\* try_receive_message that needs bytes finds the lock it needs for
\* poll_recvmsg free.
C15_ReadAndWriteShareNoLock ==
    /\ (/\ pcR \in {"hdr_io", "body_io"}
        /\ pcF = "loop"
        /\ outbound.msgs # <<>>
        /\ data_of(Head(outbound.msgs), outbound.pos) # <<>>)
            => unlocked(mutex, TxSocket)
    /\ (/\ pcF = "send"
        /\ \/ pcR = "hdr"
           \/ pcR = "body" /\ incomplete(inbound))
            => unlocked(mutex, RxSocket)

\* C16: when try_flush has returned (Pending, an error or success) no flush
\* task holds the inbound, outbound or socket Mutex, and when
\* try_receive_message has returned the receiving task holds none of them;
\* with both returned every Mutex is free for the next caller.
C16_NoGuardOverReturn ==
    /\ pcF = "idle" => \A m \in Mutexes : mutex[m] \notin Flushers
    /\ pcR = "idle" => \A m \in Mutexes : mutex[m] # "recv"
    /\ (pcF = "idle" /\ pcR = "idle") => \A m \in Mutexes : unlocked(mutex, m)

\* try_flush returned Pending inside a message and try_receive_message
\* returned Pending inside a frame: both tasks wait for the socket
C16_Witness ==
    /\ pcF = "idle"
    /\ flushRes = "Pending"
    /\ outbound.pos > 0
    /\ pcR = "idle"
    /\ recvRes.kind = "Pending"
    /\ inbound.pos > 0

\* C17: once close has returned, every try_flush call and every
\* try_receive_message call that starts afterwards returns an error,
\* whatever the outbound queue and the inbound buffer hold.
C17_ClosedMeansError ==
    /\ (pcF = "idle" /\ flushLate /\ flushRes # "NoResult") => flushRes = "Err"
    /\ (pcR = "idle" /\ recvLate /\ recvRes.kind # "NoResult")
            => recvRes.kind \in {"InputOutput", "UnexpectedEof"}

FramingError ==
    /\ inbound.pos >= MIN_MESSAGE_SIZE
    /\ BLen(inbound.buffer) >= MIN_MESSAGE_SIZE
    /\ LET h == read(inbound.buffer)
       IN  ~h.ok \/ excess(total_len(h))

\* C19: when try_receive_message has returned the error of a header that
\* cannot be parsed or ExcessData, inbound holds that header; from then on
\* inbound never changes (no later byte is read or taken for the start of a
\* message), no message is delivered, and every call that returns returns
\* one of these errors.
C19_FramingErrorIsFatal ==
    /\ []((pcR = "idle" /\ recvRes.kind \in {"Header", "ExcessData"}) => FramingError)
    /\ [][FramingError
            => /\ FramingError'
               /\ inbound' = inbound
               /\ delivered' = delivered
               /\ (pcR # "idle" /\ pcR' = "idle")
                    => recvRes'.kind \in {"Header", "ExcessData"}]_vars

\* a call after the failed one has begun and has read nothing: it is about
\* to parse the same 16 bytes, while the next frame of the stream waits in
\* the socket
C19_Witness ==
    /\ FramingError
    /\ peer.pre = 0
    /\ pcR = "parse"
    /\ io = NoResult
    /\ wire # <<>>

\* C20: a Connection created with a raw_in_buffer of 1 byte up to the whole
\* first frame.  Until the first message is returned, the received part of
\* inbound is the stream's first pos bytes, pos is at least the initial
\* length, and the socket still holds every byte after them: only missing
\* bytes are taken from it.  If the first frame is returned as a message, it
\* is the initial bytes followed by the bytes read, the first frame of the
\* stream, and when it is returned the socket holds exactly the rest of the
\* stream.
C20_InitialBufferIsUsed ==
    (peer.pre >= 1 /\ peer.pre <= BLen(peer.stream[1].bytes)) =>
        LET stream == WireBytes(AsWire(peer.stream))
            first == peer.stream[1].bytes
            raw_in_buffer == BTake(stream, peer.pre)
        IN  /\ inbound.prev_seq = 0 =>
                /\ delivered = <<>>
                /\ inbound.pos >= peer.pre
                /\ BTake(inbound.buffer, inbound.pos) = BTake(stream, inbound.pos)
                /\ inbound.pos + WireLen(wire) = BLen(stream)
            /\ (delivered # <<>> /\ delivered[1].recv_seq = 1) =>
                /\ delivered[1].bytes =
                    BCat(raw_in_buffer,
                         BTake(BDrop(stream, peer.pre), BLen(first) - peer.pre))
                /\ delivered[1].bytes = first
            /\ (inbound.prev_seq = 1 /\ inbound.pos = 0 /\ Len(delivered) = 1) =>
                WireLen(wire) = BLen(stream) - BLen(first)

\* the first message of 24 bytes is returned, 23 of them from the initial
\* buffer, and the next frame is still in the socket
C20_Witness ==
    /\ peer.pre = BLen(peer.stream[1].bytes) - 1
    /\ BLen(peer.stream[1].bytes) = 24
    /\ Len(delivered) = 1
    /\ recvRes.kind = "Ok"
    /\ pcR = "idle"
    /\ wire # <<>>

\* C21: every message returned by try_receive_message or by
\* ReadHalf::receive_message has exactly 16 + fields_len + pad8(16 +
\* fields_len) + body_len bytes, fields_len and body_len being those
\* PrimaryHeader::read finds in its first 16 bytes; it has at least 16 and at
\* most MAX_MESSAGE_SIZE bytes, and its last body_len bytes start at a
\* multiple of 8.
C21_FrameLength ==
    \A i \in 1 .. Len(delivered) :
        LET b == delivered[i].bytes
            h == read(b)
            pad8 == (8 - ((16 + h.fields_len) % 8)) % 8
            body_at == 16 + h.fields_len + pad8
        IN  /\ h.ok
            /\ BLen(b) = 16 + h.fields_len + pad8 + h.body_len
            /\ BLen(b) = FrameLen(b)
            /\ BLen(b) >= 16
            /\ BLen(b) <= 128 * 1024 * 1024
            /\ body_at % 8 = 0
            /\ BLen(BDrop(b, body_at)) = h.body_len

\* receive_message has returned a message with a byte of padding before its
\* body and then one without fields and body
C21_Witness ==
    /\ peer.api = "receive_message"
    /\ Len(delivered) = 2
    /\ BLen(delivered[1].bytes) = 26
    /\ BLen(delivered[2].bytes) = 16
    /\ NativeU32(delivered[1].bytes, 12) = 7

\* C22: when the 16 bytes a reader is about to parse start with a byte that
\* is neither 'l' nor 'B', PrimaryHeader::read fails with IncorrectEndian,
\* and that is the error the call returns; the bytes 'l' and 'B' are Little
\* and Big.
C22_BadEndianIsIncorrectEndian ==
    /\ EndianSig_try_from(108) = [ok |-> TRUE, sig |-> "Little"]
    /\ EndianSig_try_from(66) = [ok |-> TRUE, sig |-> "Big"]
    /\ (pcR \in {"parse", "rm_parse"} /\ BAt(inbound.buffer, 0) \notin {66, 108})
            => LET h == read(inbound.buffer)
               IN  ~h.ok /\ h.err = "IncorrectEndian"
    /\ (/\ pcR = "idle"
        /\ recvRes.kind = "Header"
        /\ inbound.prev_seq = 0
        /\ BAt(peer.stream[1].bytes, 0) \notin {66, 108})
            => recvRes.err = "IncorrectEndian"

\* C23: PrimaryHeader::read accepts no header whose protocol_version byte is
\* not 1: a reader that got past the parsing of 16 bytes holds a header of
\* version 1, and so does every message returned.
C23_OnlyVersionOne ==
    /\ pcR \in {"body", "body_io", "rm_body"} => BAt(inbound.buffer, 3) = 1
    /\ (pcR \in {"parse", "rm_parse"} /\ BAt(inbound.buffer, 3) # 1)
            => LET h == read(inbound.buffer)
               IN  ~h.ok /\ h.err = "UnknownProtocol"
    /\ \A i \in 1 .. Len(delivered) : BAt(delivered[i].bytes, 3) = 1

\* the u32 at offset off of b in the byte order that b[0] declares
DeclaredU32(b, off) ==
    IF BAt(b, 0) = Big
    THEN 16777216 * BAt(b, off) + 65536 * BAt(b, off + 1) + 256 * BAt(b, off + 2)
            + BAt(b, off + 3)
    ELSE BAt(b, off) + 256 * BAt(b, off + 1) + 65536 * BAt(b, off + 2)
            + 16777216 * BAt(b, off + 3)

\* C24: the header that PrimaryHeader::read returns carries body_len,
\* serial_num and fields_len as the byte order declared by the first byte
\* gives them, and the total length a reader computes from it is the length
\* of the frame in that byte order, whether or not it is the host's.
C24_DeclaredEndianHonoured ==
    (pcR \in {"parse", "rm_parse"} /\ read(inbound.buffer).ok) =>
        LET b == inbound.buffer
            h == read(b)
            fields_len == DeclaredU32(b, 12)
            body_len == DeclaredU32(b, 4)
        IN  /\ h.body_len = body_len
            /\ h.serial_num = DeclaredU32(b, 8)
            /\ h.fields_len = fields_len
            /\ total_len(h) =
                16 + fields_len + ((8 - ((16 + fields_len) % 8)) % 8) + body_len

\* C25: the type bytes 1, 2, 3 and 4 are MethodCall, MethodReturn, Error and
\* Signal and every other byte is Invalid; PrimaryHeader::read fails on no
\* header because of its type byte: 16 bytes with a declared byte order and
\* defined flags are accepted whatever the type byte, and the header
\* returned has the type that byte decodes to.
C25_UnknownTypeIsInvalid ==
    /\ Type_from(1) = "MethodCall"
    /\ Type_from(2) = "MethodReturn"
    /\ Type_from(3) = "Error"
    /\ Type_from(4) = "Signal"
    /\ \A val \in (0 .. 255) \ (1 .. 4) : Type_from(val) = "Invalid"
    /\ (/\ pcR \in {"parse", "rm_parse"}
        /\ BAt(inbound.buffer, 0) \in {Big, Little}
        /\ BAt(inbound.buffer, 2) \in FlagBits)
            => LET h == read(inbound.buffer)
               IN  h.ok /\ Type_from(h.msg_type) = Type_from(BAt(inbound.buffer, 1))

\* C26: the serial of a header made by PrimaryHeader::new is None until the
\* first serial_num_or_init call; that call runs its closure and stores what
\* it returns; every later serial_num_or_init call leaves its closure alone
\* and returns the stored value, as serial_num does; once set, the serial
\* never changes.
C26_SerialSetOnce ==
    /\ [](hdr.primary # <<>> =>
            LET calls == hdr.calls
                inits == {i \in 1 .. Len(calls) : calls[i].op = "serial_num_or_init"}
                first == CHOOSE j \in inits : \A k \in inits : j <= k
            IN  /\ inits = {} => hdr.primary[1].serial_num = <<>>
                /\ inits # {} => hdr.primary[1].serial_num = <<calls[first].f>>
                /\ \A i \in 1 .. Len(calls) :
                    IF calls[i].op = "serial_num"
                    THEN calls[i].ret =
                            IF inits = {} \/ i < first THEN <<>> ELSE <<calls[first].f>>
                    ELSE /\ calls[i].ran <=> i = first
                         /\ calls[i].ret = <<calls[first].f>>)
    /\ [][(hdr.primary # <<>> /\ hdr.primary[1].serial_num # <<>>)
            => hdr'.primary[1].serial_num = hdr.primary[1].serial_num]_vars

\* serial_num returned None, serial_num_or_init stored 1, and a second
\* serial_num_or_init with a closure for 2 returned 1
C26_Witness ==
    /\ Len(hdr.calls) = 3
    /\ hdr.calls[1] = [op |-> "serial_num", ret |-> <<>>]
    /\ hdr.calls[2] = [op |-> "serial_num_or_init", f |-> 1, ran |-> TRUE, ret |-> <<1>>]
    /\ hdr.calls[3] = [op |-> "serial_num_or_init", f |-> 2, ran |-> FALSE, ret |-> <<1>>]
    /\ hdr.primary[1].serial_num = <<1>>

\* what the accessors of a header return, by kind of field
Accessors(h) ==
    [Path |-> path(h), Interface |-> interface(h), Member |-> member(h),
     ErrorName |-> error_name(h), ReplySerial |-> reply_serial(h),
     Destination |-> destination(h), Sender |-> sender(h),
     Signature |-> signature(h), UnixFDs |-> unix_fds(h)]

\* C27: for a Header whose fields were added one per code, every accessor
\* returns Ok(Some(v)) exactly when a field of its kind was added with value
\* v and Ok(None) when none was, and message_type returns the type given to
\* PrimaryHeader::new.
C27_AccessorsReturnWhatWasAdded ==
    hdr.primary # <<>> =>
        /\ message_type(hdr) = [ok |-> TRUE, value |-> hdr.primary[1].msg_type]
        /\ \A c \in 1 .. Len(FieldKinds) :
            LET kind == FieldKinds[c]
                got == Accessors(hdr)[kind]
                added == {hdr.fields[i].value :
                            i \in {j \in 1 .. Len(hdr.fields) : hdr.fields[j].kind = kind}}
            IN  /\ got.ok
                /\ added = {} <=> got.value = <<>>
                /\ \A v \in 1 .. MaxValue : got.value = <<v>> <=> v \in added

\* a Signal header with Sender 2 added first and Path 1 after it
C27_Witness ==
    /\ hdr.primary # <<>>
    /\ hdr.primary[1].msg_type = 4
    /\ hdr.fields = <<[kind |-> "Sender", value |-> 2], [kind |-> "Path", value |-> 1]>>
    /\ path(hdr) = [ok |-> TRUE, value |-> <<1>>]
    /\ sender(hdr) = [ok |-> TRUE, value |-> <<2>>]
    /\ member(hdr) = [ok |-> TRUE, value |-> <<>>]

\* the keys of path, abstract, dir and tmpdir that the options of a unix
\* address hold
UnixPresent == {k \in {"path", "abstract", "dir", "tmpdir"} : addr.opts[k] # <<>>}

\* Vsock and Launchd as C28 states them: cid and port mandatory and a u32
\* each, env mandatory; a descriptor holds what the options held
VsockLaunchdInvariants ==
    /\ addr.kind = "vsock" =>
        /\ ~addr.result.ok <=>
            \/ addr.opts.cid = <<>> \/ addr.opts.port = <<>>
            \/ ~parse_u32(addr.opts.cid[1]).ok \/ ~parse_u32(addr.opts.port[1]).ok
        /\ ~addr.result.ok => addr.result = AddressErr
        /\ addr.result.ok =>
            /\ addr.result.value.cid = parse_u32(addr.opts.cid[1]).value
            /\ addr.result.value.port = parse_u32(addr.opts.port[1]).value
            /\ Len(addr.result.value.cid) <= Len(U32MaxDigits)
            /\ Len(addr.result.value.port) <= Len(U32MaxDigits)
    /\ addr.kind = "launchd" =>
        /\ ~addr.result.ok <=> addr.opts.env = <<>>
        /\ ~addr.result.ok => addr.result = AddressErr

\* C28 as stated: Unix::from_options succeeds exactly when exactly one of
\* path, abstract, dir, tmpdir is present and returns an Address error
\* otherwise; Vsock::from_options returns an Address error when cid or port
\* is missing or not a u32; Launchd::from_options when env is missing.
C28_Stated ==
    /\ addr.kind = "unix" =>
        /\ addr.result.ok <=> Cardinality(UnixPresent) = 1
        /\ ~addr.result.ok => addr.result = AddressErr
    /\ VsockLaunchdInvariants

\* C28: Unix::from_options succeeds exactly when exactly one of path,
\* abstract, dir, tmpdir is present and that one is not abstract on a build
\* for another target than Linux; it returns an Address error otherwise, and
\* a descriptor it returns is the variant of the one key present.
\* Vsock::from_options returns an Address error when cid or port is missing
\* or not a u32; Launchd::from_options when env is missing.
C28_FromOptionsInvariants ==
    /\ addr.kind = "unix" =>
        /\ addr.result.ok <=>
            /\ Cardinality(UnixPresent) = 1
            /\ UnixPresent = {"abstract"} => addr.target_os = "linux"
        /\ ~addr.result.ok => addr.result = AddressErr
        /\ addr.result.ok =>
            LET variant == addr.result.value.path.variant
            IN  UnixPresent = {CASE variant = "File" -> "path"
                                 [] variant = "Abstract" -> "abstract"
                                 [] variant = "Dir" -> "dir"
                                 [] variant = "TmpDir" -> "tmpdir"}
    /\ VsockLaunchdInvariants

\* abstract alone is refused on a build for another target than Linux
C28_Witness ==
    /\ addr.kind = "unix"
    /\ addr.target_os = "other"
    /\ UnixPresent = {"abstract"}
    /\ addr.result = AddressErr

\* what C29 asks of a value stored from the option value v: an Address
\* error if v holds an invalid escape, the decoded bytes otherwise
StoredDecoded(v, stored) ==
    LET decoded == decode_percents(v)
    IN  /\ ~decoded.ok => addr.result = AddressErr
        /\ decoded.ok /\ addr.result.ok => stored = decoded.value

\* C29: the value of every address key is percent-decoded before it is
\* stored in the descriptor: a %HH escape in a unix path, abstract, dir or
\* tmpdir value, in a launchd env value or in an autolaunch scope value
\* yields the decoded byte in the descriptor, and an invalid escape or a
\* scope that is not UTF-8 after decoding yields an Address error.
C29_ValuesPercentDecoded ==
    /\ addr.kind = "unix" /\ Cardinality(UnixPresent) = 1 =>
        \A k \in UnixPresent :
            StoredDecoded(addr.opts[k][1], addr.result.value.path.name)
    /\ addr.kind = "launchd" /\ addr.opts.env # <<>> =>
        StoredDecoded(addr.opts.env[1], addr.result.value.env)
    /\ addr.kind = "autolaunch" /\ addr.opts.scope # <<>> =>
        /\ StoredDecoded(addr.opts.scope[1], addr.result.value.scope[1])
        /\ LET decoded == decode_percents(addr.opts.scope[1])
           IN  decoded.ok => (addr.result.ok <=> is_utf8(decoded.value, 1))

\* the iterators whose stream is subscribed to the match rule: made by
\* for_match_rule, and still in the iterator or moved out of it
Subscribed ==
    {i \in Iterators : /\ iter.its[i].rule
                       /\ iter.its[i].pc = "live" \/ iter.its[i].moved # "no"}

\* C30: dropping a blocking MessageIterator that still owns its stream runs
\* async_drop on that stream exactly once and to completion before drop
\* returns, so that the stream has left the subscribers of its match rule
\* and, for the last of them, the RemoveMatch round trip is over; an
\* iterator whose stream was moved out by into_inner or by the conversion
\* into a Connection runs no async_drop in its drop.
C30_DropRunsAsyncDrop ==
    /\ [](\A i \in Iterators :
            LET it == iter.its[i]
            IN  /\ it.async_drops <= 1
                /\ it.pc = "dropped" /\ it.owned =>
                    /\ it.async_drops = 1
                    /\ it.completed = 1
                    /\ it.azync = <<>>
                    /\ i \notin Subscribed
                /\ it.moved # "no" =>
                    /\ it.pc = "dropped"
                    /\ ~it.owned
                    /\ it.async_drops = 0
                    /\ it.completed = 0)
    /\ [](/\ iter.subs = Cardinality(Subscribed)
          /\ iter.bus = (IF iter.subs > 0 THEN 1 ELSE 0)
                        + Cardinality({i \in Iterators : iter.its[i].pc = "remove_match"}))
    /\ [][\A i \in Iterators :
            iter.its[i].pc # "dropped" /\ iter'.its[i].pc = "dropped" /\ iter'.its[i].owned
                => iter.its[i].pc = "async_done"]_vars

\* one iterator made by for_match_rule was dropped with its stream and the
\* rule is off the bus; the stream of another was taken by into_inner
C30_Witness ==
    /\ iter.its[1].pc = "dropped" /\ iter.its[1].owned /\ iter.its[1].rule
    /\ iter.its[1].completed = 1
    /\ iter.bus = 0
    /\ iter.its[2].pc = "dropped" /\ iter.its[2].moved = "into_inner"
    /\ iter.its[2].async_drops = 0

\* C31: a listener handed out by await_out_queue_ready that is waiting when
\* close has closed the socket, or when try_flush has returned an I/O error,
\* is notified in the end, the flushing task calling try_flush again and
\* again.
C31_WaitersWokenWhenUnusable ==
    [](/\ listeners # <<>>
       /\ listeners[Len(listeners)] = "waiting"
       /\ closed \/ (pcF = "idle" /\ flushRes = "Err")
       => <>(\A i \in 1 .. Len(listeners) : listeners[i] = "notified"))

\* the call stands before a recvmsg: in the loop that completes the first 16
\* bytes or in the loop that reads the rest
AtRecvmsg ==
    \/ pcR \in {"hdr_io", "body_io", "rm_hdr"}
    \/ pcR = "rm_body" /\ inbound.pos < BLen(inbound.buffer)

\* C32: receive_message and try_receive_message make the same of every
\* result of recvmsg other than Pending, in either loop: an error ends the
\* call with that I/O error, Ok(0) ends it with UnexpectedEof, and Ok(n)
\* with n > 0 moves the cursor by n and lets the call go on; a header that
\* read rejects, or a length over the maximum, ends either call with the same
\* error, and a message returned holds the bytes and fds read for it.
C32_SameOutcomeAsReceiveMessage ==
    /\ [][AtRecvmsg /\ io'.kind # "Pending" =>
           (IF io'.kind = "Err"
            THEN pcR' = "idle" /\ recvRes'.kind = "InputOutput"
            ELSE IF io'.len = 0
            THEN pcR' = "idle" /\ recvRes'.kind = "UnexpectedEof"
            ELSE /\ pcR' # "idle"
                 /\ inbound'.pos = inbound.pos + io'.len
                 /\ inbound'.fds = fdsIn')]_vars
    /\ [][(pcR \in {"parse", "rm_parse"}) =>
           (LET h == read(inbound.buffer)
            IN  IF ~h.ok THEN pcR' = "idle" /\ recvRes' = [kind |-> "Header", err |-> h.err]
                ELSE IF total_len(h) > MAX_MESSAGE_SIZE
                THEN pcR' = "idle" /\ recvRes'.kind = "ExcessData"
                ELSE pcR' # "idle" /\ BLen(inbound'.buffer) = total_len(h))]_vars
    /\ [](recvRes.kind = "Ok" =>
            /\ recvRes.msg.bytes = BTake(recvRes.read, BLen(recvRes.msg.bytes))
            /\ recvRes.msg.fds = recvRes.readFds)

\* C33: with senders and try_flush interleaved in every way, no wakeup is
\* lost: a listener is handed out only under the outbound Mutex, with the
\* queue at MAX_OUT_QUEUE_LEN or more, and starts waiting; the step in which
\* try_flush returns Ok leaves the queue empty and every listener handed out
\* so far notified; a check made on the drained queue returns None; and
\* while no try_flush is running, a listener that is still waiting has a
\* message in the queue, so that a flush that drains it is yet to complete.
C33_NoLostWakeup ==
    /\ [][Len(listeners') > Len(listeners) =>
            /\ pcF = "idle"
            /\ Len(outbound.msgs) >= MAX_OUT_QUEUE_LEN
            /\ listeners' = Append(listeners, "waiting")]_vars
    /\ [][(pcF # "idle" /\ pcF' = "idle" /\ flushRes' = "Ok") =>
            /\ outbound'.msgs = <<>>
            /\ Len(listeners') = Len(listeners)
            /\ \A i \in 1 .. Len(listeners') : listeners'[i] = "notified"]_vars
    /\ [][(awaitRes' # awaitRes /\ outbound.msgs = <<>>) => awaitRes'.kind = "None"]_vars
    /\ [](pcF = "idle" /\ (\E i \in 1 .. Len(listeners) : listeners[i] = "waiting")
            => outbound.msgs # <<>>)

\* s1 was woken by a flush that drained the queue, and the check of s2 after
\* it returned None
C33_Witness ==
    /\ listeners = <<"notified">>
    /\ pcF = "idle"
    /\ flushRes = "Ok"
    /\ awaitRes = [kind |-> "None", len |-> 0]
    /\ senders["s1"].at = "wait"
    /\ senders["s2"].at = "go"

\* a task waits in enqueue_message for outbound with the guard of socket()
\* in hand, and the try_flush call that holds outbound waits for the socket
Deadlocked ==
    \E u \in DOMAIN senders :
        /\ senders[u].at = "blocked"
        /\ mutex[TxSocket] = u
        /\ mutex["outbound"] \in DOMAIN fl
        /\ pcF = "loop"
        /\ outbound.msgs # <<>>
        /\ data_of(Head(outbound.msgs), outbound.pos) # <<>>

\* C34: calls of try_flush, try_receive_message, enqueue_message,
\* await_out_queue_ready, close and socket() from different tasks never
\* deadlock: no task waits for outbound while it holds the socket Mutex that
\* the holder of outbound waits for; whoever holds the socket Mutex holds
\* inbound or outbound too; inbound and outbound are never held by one
\* task; and a task that is in no call holds no Mutex.
C34_NoDeadlock ==
    /\ ~Deadlocked
    /\ \A m \in {TxSocket, RxSocket} :
           mutex[m] # "none" => mutex[m] \in {mutex["outbound"], mutex["inbound"]}
    /\ mutex["inbound"] = "none" \/ mutex["inbound"] # mutex["outbound"]
    /\ \A u \in DOMAIN senders :
           senders[u].at \in {"idle", "holding"} => \A m \in Mutexes : mutex[m] # u
    /\ pcF = "idle" => \A m \in Mutexes : mutex[m] \notin DOMAIN fl
    /\ pcR = "idle" => \A m \in Mutexes : mutex[m] # "recv"

\* C35: every try_flush call returns: a call that has locked outbound is
\* followed by a state in which it has returned and outbound is unlocked,
\* whatever poll_sendmsg answers (Pending, an error, or Ok(n) with
\* 0 <= n <= the bytes offered), and a call that returns Ok leaves the queue
\* empty.
C35_TryFlushReturns ==
    /\ [](pcF # "idle" => <>(pcF = "idle" /\ unlocked(mutex, "outbound")))
    /\ [][(pcF # "idle" /\ pcF' = "idle") =>
            /\ flushRes' \in {"Pending", "Err", "Ok"}
            /\ flushRes' = "Ok" => outbound'.msgs = <<>>]_vars

\* C36: a try_flush call in which poll_sendmsg fails returns the error and
\* leaves the queue, the cursor, the socket and the listeners of
\* out_queue_ready as they were before the failing write; until the next
\* call runs, the cursor and the messages queued stay where they are (new
\* ones only go behind them), so the next write offers the same bytes of the
\* same head message.
C36_ErrorLeavesQueue ==
    /\ [][(pcF = "send" /\ pcF' = "idle" /\ flushRes' = "Err") =>
            /\ sent'.kind = "Err"
            /\ outbound' = outbound
            /\ listeners' = listeners
            /\ wire' = wire
            /\ written' = written]_vars
    /\ [][(flushRes = "Err" /\ pcF \in {"idle", "loop"} /\ pcF' # "idle") =>
            /\ outbound'.pos = outbound.pos
            /\ outbound.msgs # <<>>
            /\ Len(outbound'.msgs) >= Len(outbound.msgs)
            /\ SubSeq(outbound'.msgs, 1, Len(outbound.msgs)) = outbound.msgs]_vars
    /\ [][(flushRes = "Err" /\ pcF = "idle" /\ pcF' = "idle") =>
            /\ outbound'.pos = outbound.pos
            /\ SubSeq(outbound'.msgs, 1, Len(outbound.msgs)) = outbound.msgs]_vars

\* a write failed in the middle of the head message with the queue full and
\* a listener waiting
C36_Witness ==
    /\ pcF = "idle"
    /\ flushRes = "Err"
    /\ outbound.pos > 0
    /\ Len(outbound.msgs) >= MAX_OUT_QUEUE_LEN
    /\ listeners # <<>>
    /\ listeners[1] = "waiting"

\* C37: between calls the cursors are within bounds: with no try_flush
\* call under way the outbound cursor is at most the length of the head
\* message and is 0 when the queue is empty; with no try_receive_message
\* call under way the inbound cursor is at most the length of the inbound
\* buffer, and after a call that returned a message it is 0 and the buffer
\* is empty.
C37_CursorsInBounds ==
    /\ pcF = "idle" =>
          /\ outbound.pos >= 0
          /\ outbound.msgs = <<>> => outbound.pos = 0
          /\ outbound.msgs # <<>> => outbound.pos <= BLen(Head(outbound.msgs).bytes)
    /\ pcR = "idle" =>
          /\ inbound.pos >= 0
          /\ inbound.pos <= BLen(inbound.buffer)
          /\ recvRes.kind = "Ok" => inbound.pos = 0 /\ inbound.buffer = <<>>

\* both cursors stand inside a message between calls, and a message has
\* been returned before
C37_Witness ==
    /\ pcF = "idle"
    /\ pcR = "idle"
    /\ outbound.msgs # <<>>
    /\ outbound.pos > 0
    /\ outbound.pos < BLen(Head(outbound.msgs).bytes)
    /\ inbound.pos > 0
    /\ inbound.pos < BLen(inbound.buffer)
    /\ delivered # <<>>

\* C38: when the buffer handed over at construction (raw_in_buffer, or
\* already_received_bytes) is longer than the first message, the first
\* message returned has exactly its own bytes, the bytes beyond it are still
\* there when the call returns (in the buffer below the cursor; nothing of
\* the stream is missing between the buffer and the socket), and the second
\* message returned begins with them.
C38_SurplusIsKept ==
    (peer.pre > BLen(peer.stream[1].bytes)) =>
        LET stream == WireBytes(AsWire(peer.stream))
            first == peer.stream[1].bytes
            surplus == BDrop(BTake(stream, peer.pre), BLen(first))
        IN  /\ (delivered # <<>> /\ delivered[1].recv_seq = 1) =>
                delivered[1].bytes = first
            /\ (Len(delivered) = 1 /\ inbound.prev_seq = 1 /\ pcR = "idle") =>
                /\ inbound.pos >= BLen(surplus)
                /\ BTake(inbound.buffer, BLen(surplus)) = surplus
                /\ BLen(first) + inbound.pos + WireLen(wire) = BLen(stream)
            /\ (Len(delivered) >= 2 /\ delivered[2].recv_seq = 2) =>
                BTake(delivered[2].bytes, BLen(surplus)) = surplus

\* C39: through every sequence of inner, match_rule, next, clone,
\* into_inner, the conversions to Connection and drop, no expect on the
\* inner stream panics; an iterator is without its stream only after
\* into_inner or the consuming conversion took it, or once drop has taken
\* it; and async_drop runs at most once on the stream of an iterator, and
\* never on a stream that was moved out.
C39_InnerStreamPanicUnreachable ==
    \A i \in Iterators :
        LET it == iter.its[i]
        IN  /\ ~it.panicked
            /\ it.pc = "live" => it.azync # <<>>
            /\ (it.pc # "none" /\ it.azync = <<>>) =>
                  \/ it.moved # "no"
                  \/ it.pc \in {"remove_match", "async_done", "dropped"}
            /\ it.async_drops <= 1
            /\ it.moved # "no" => it.async_drops = 0
            /\ it.async_drops = 1 => it.azync = <<>>

\* an iterator for a match rule was cloned and turned into its stream; the
\* clone was iterated, asked for its connection and dropped
C39_Witness ==
    /\ iter.its[1].moved = "into_inner"
    /\ iter.its[1].pc = "dropped"
    /\ iter.its[2].rule
    /\ iter.its[2].yielded = MaxNext
    /\ iter.seen = [of |-> 2, what |-> "connection"]
    /\ iter.its[2].pc = "dropped"
    /\ iter.its[2].async_drops = 1
    /\ iter.subs = 0

====
